---- MODULE Spec2Model ----
(***************************************************************************)
(* Model of the RFM scoring engine: modules/rfm_processing.py              *)
(* (RFMProcessing: outlier limits, breaks, scores, ranges) and             *)
(* modules/segment_assigner.py (RFMProcessor: final score, categories).    *)
(*                                                                         *)
(* Numbers.  A column value v of the model stands for the real number      *)
(* v * 0.0005, so the program's 0.001 is EPS = 2 and a column can hold a   *)
(* value strictly between b - 0.001 and b.  Arithmetic is exact: the       *)
(* rounding of IEEE doubles is not modelled.  Percentiles are linear       *)
(* interpolations, so every quantity is kept as an integer numerator over  *)
(* a denominator that is named where it is used: cut-points and ranges     *)
(* are scaled by num_categories (Scale).                                   *)
(***************************************************************************)
EXTENDS Integers, Sequences, FiniteSets, TLC

\* ---------------------------------------------------------------- bounds
MaxLen == 3      \* longest column
MaxVal == 3      \* largest column value (in units of 0.0005)
MaxCat == 3      \* largest num_categories

\* ------------------------------------------------------------- constants
EPS == 2         \* 0.001 in units of 0.0005
NaN == -1        \* the null / NaN cell of a column

IsNull(v) == v = NaN

\* ------------------------------------------------------------- helpers
RECURSIVE SumSeq(_)
SumSeq(s) == IF s = <<>> THEN 0 ELSE Head(s) + SumSeq(Tail(s))

SeqMin(s) == CHOOSE x \in {s[i] : i \in DOMAIN s} : \A j \in DOMAIN s : x <= s[j]
SeqMax(s) == CHOOSE x \in {s[i] : i \in DOMAIN s} : \A j \in DOMAIN s : x >= s[j]

\* df[column] without its nulls (pandas min/max/quantile/mean/std skip them)
NonNull(col) == SelectSeq(col, LAMBDA v : ~IsNull(v))

Sorted(s) == SortSeq(s, LAMBDA a, b : a < b)

\* mutant: the percentile is taken from the values in descending order
PctScaled_Descending(a, num, den) ==
    LET d   == [i \in DOMAIN a |-> a[Len(a) + 1 - i]]
        k   == (Len(a) - 1) * num
        fl  == k \div den
        rem == k % den
    IN  IF rem = 0 THEN d[fl + 1] * den
        ELSE d[fl + 1] * den + rem * (d[fl + 2] - d[fl + 1])

\* mutant: no interpolation, the percentile is the value just below it
PctScaled_Lower(a, num, den) ==
    LET k   == (Len(a) - 1) * num
        fl  == k \div den
    IN  a[fl + 1] * den

\* Linear-interpolation percentile num/den of the sorted sequence a,
\* returned multiplied by den (numpy.percentile / Series.quantile default).
PctScaled(a, num, den) ==
    LET k   == (Len(a) - 1) * num
        fl  == k \div den
        rem == k % den
    IN  IF rem = 0 THEN a[fl + 1] * den
        ELSE a[fl + 1] * den + rem * (a[fl + 2] - a[fl + 1])

\* ------------------------------------------------ calculate_outliers_limits
\* mutant: a method other than std_dev and percentiles is treated as IQR
calculate_outliers_limits_IQRFallback(col, vc) ==
    IF ~vc.present THEN [status |-> "KeyError"]
    ELSE
    LET nn == Sorted(NonNull(col))
        n  == Len(nn)
        mn == IF n = 0 THEN NaN ELSE nn[1]
        mx == IF n = 0 THEN NaN ELSE nn[n]
    IN  IF vc.outlier_method \notin {"std_dev", "percentiles"} THEN
            IF n = 0 THEN [status |-> "ok", kind |-> "nan", min_value |-> mn, max_value |-> mx]
            ELSE LET Q1  == PctScaled(nn, 1, 4)
                     Q3  == PctScaled(nn, 3, 4)
                     IQR == Q3 - Q1
                 IN  [status |-> "ok", kind |-> "lin", den |-> 8,
                      LI |-> 2 * Q1 - vc.iqr_factor2 * IQR,
                      LS |-> 2 * Q3 + vc.iqr_factor2 * IQR,
                      min_value |-> mn, max_value |-> mx]
        ELSE IF vc.outlier_method = "std_dev" THEN
            IF n < 2 THEN [status |-> "ok", kind |-> "nan", min_value |-> mn, max_value |-> mx]
            ELSE LET S  == SumSeq(nn)
                     SQ == SumSeq([i \in 1..n |-> nn[i] * nn[i]])
                 IN  [status |-> "ok", kind |-> "std", n |-> n, sum |-> S,
                      \* nvar = n*n*(n-1)*std*std
                      nvar |-> n * (n * SQ - S * S), k |-> vc.std_dev_factor,
                      min_value |-> mn, max_value |-> mx]
        ELSE IF vc.outlier_method = "percentiles" THEN
            \* np.percentile on the raw column: it raises on an empty column,
            \* and a NaN cell makes both limits NaN
            IF Len(col) = 0 THEN [status |-> "IndexError"]
            ELSE IF n # Len(col)
            THEN [status |-> "ok", kind |-> "nan", min_value |-> mn, max_value |-> mx]
            ELSE [status |-> "ok", kind |-> "lin", den |-> 100,
                  LI |-> PctScaled(nn, vc.percentile_lower, 100),
                  LS |-> PctScaled(nn, vc.percentile_upper, 100),
                  min_value |-> mn, max_value |-> mx]
        ELSE [status |-> "ValueError"]

\* The limits are kept as numerators over `den`; std_dev keeps the
\* quantities from which  mean -/+ k*std  is compared without a square root.
calculate_outliers_limits(col, vc) ==
    IF ~vc.present THEN [status |-> "KeyError"]
    ELSE
    LET nn == Sorted(NonNull(col))
        n  == Len(nn)
        mn == IF n = 0 THEN NaN ELSE nn[1]
        mx == IF n = 0 THEN NaN ELSE nn[n]
    IN  IF vc.outlier_method = "IQR" THEN
            IF n = 0 THEN [status |-> "ok", kind |-> "nan", min_value |-> mn, max_value |-> mx]
            ELSE LET Q1  == PctScaled(nn, 1, 4)
                     Q3  == PctScaled(nn, 3, 4)
                     IQR == Q3 - Q1
                 IN  [status |-> "ok", kind |-> "lin", den |-> 8,
                      LI |-> 2 * Q1 - vc.iqr_factor2 * IQR,
                      LS |-> 2 * Q3 + vc.iqr_factor2 * IQR,
                      min_value |-> mn, max_value |-> mx]
        ELSE IF vc.outlier_method = "std_dev" THEN
            IF n < 2 THEN [status |-> "ok", kind |-> "nan", min_value |-> mn, max_value |-> mx]
            ELSE LET S  == SumSeq(nn)
                     SQ == SumSeq([i \in 1..n |-> nn[i] * nn[i]])
                 IN  [status |-> "ok", kind |-> "std", n |-> n, sum |-> S,
                      \* nvar = n*n*(n-1)*std*std
                      nvar |-> n * (n * SQ - S * S), k |-> vc.std_dev_factor,
                      min_value |-> mn, max_value |-> mx]
        ELSE IF vc.outlier_method = "percentiles" THEN
            \* np.percentile on the raw column: it raises on an empty column,
            \* and a NaN cell makes both limits NaN
            IF Len(col) = 0 THEN [status |-> "IndexError"]
            ELSE IF n # Len(col)
            THEN [status |-> "ok", kind |-> "nan", min_value |-> mn, max_value |-> mx]
            ELSE [status |-> "ok", kind |-> "lin", den |-> 100,
                  LI |-> PctScaled(nn, vc.percentile_lower, 100),
                  LS |-> PctScaled(nn, vc.percentile_upper, 100),
                  min_value |-> mn, max_value |-> mx]
        ELSE [status |-> "ValueError"]

\* (df[column] >= LI), (df[column] <= LS), df[column].notnull()
AboveLI(lim, v) ==
    CASE lim.kind = "nan" -> FALSE
      [] lim.kind = "lin" -> v * lim.den >= lim.LI
      [] lim.kind = "std" ->
            \* v >= mean - k*std, with d = n*(mean - v)
            LET d == lim.sum - lim.n * v
            IN  IF lim.k >= 0
                THEN d <= 0 \/ d * d * (lim.n - 1) <= lim.k * lim.k * lim.nvar
                ELSE d <= 0 /\ d * d * (lim.n - 1) >= lim.k * lim.k * lim.nvar

BelowLS(lim, v) ==
    CASE lim.kind = "nan" -> FALSE
      [] lim.kind = "lin" -> v * lim.den <= lim.LS
      [] lim.kind = "std" ->
            LET d == lim.n * v - lim.sum
            IN  IF lim.k >= 0
                THEN d <= 0 \/ d * d * (lim.n - 1) <= lim.k * lim.k * lim.nvar
                ELSE d <= 0 /\ d * d * (lim.n - 1) >= lim.k * lim.k * lim.nvar

WithinLimits(lim, v) == ~IsNull(v) /\ AboveLI(lim, v) /\ BelowLS(lim, v)

\* mutant: the outlier bounds are not applied, only nulls are dropped
df_filtered_NoBounds(col, lim) == NonNull(col)

\* df[(df[column] >= LI) & (df[column] <= LS) & df[column].notnull()]
df_filtered(col, lim) == SelectSeq(col, LAMBDA v : WithinLimits(lim, v))

\* ------------------------------------------------------- calculate_breaks
\* Cut-points and range bounds are multiplied by num_categories.
Scale(gc) == gc.num_categories

\* mutant: the slice [1:] keeps the 100th percentile
InteriorPercentiles_KeepLast(n) == [k \in 1..n |-> k]

\* np.linspace(0, 100, n + 1)[1:-1]: the percentiles 100*k/n, k = 1..n-1
InteriorPercentiles(n) == [k \in 1..(n - 1) |-> k]

\* np.percentile(df_filtered[column], percentiles), times num_categories
PercentileBreaks(filtered, n) ==
    LET a == Sorted(filtered)
        p == InteriorPercentiles(n)
    IN  [i \in DOMAIN p |-> PctScaled(a, p[i], n)]

\* jenkspy.jenks_breaks(values, n_classes)[1:-1]: the library is not part of
\* the repository; its result is any ascending choice of n_classes - 1 of the
\* filtered values (class limits are data values), times num_categories.
JenksBreaks(filtered, n) ==
    LET vals == {filtered[i] : i \in DOMAIN filtered}
    IN  {[i \in 1..(n - 1) |-> f[i] * n] :
            f \in {g \in [1..(n - 1) -> vals] :
                      \A i \in 1..(n - 2) : g[i] <= g[i + 1]}}

\* mutant: the signs of the two 0.001 offsets are exchanged
InjectBounds_SignSlip(interior, mn, mx, n) ==
    <<(mn + EPS) * n>> \o interior \o <<(mx - EPS) * n>>

\* np.concatenate(([min_value - 0.001], breaks, [max_value + 0.001]))
InjectBounds(interior, mn, mx, n) ==
    <<(mn - EPS) * n>> \o interior \o <<(mx + EPS) * n>>

\* [(breaks[i], breaks[i+1]) for i in range(len(breaks)-1)]
PairRanges(breaks) == [i \in 1..(Len(breaks) - 1) |-> <<breaks[i], breaks[i + 1]>>]

\* for i in range(len(break_ranges)-1): shrink the upper bound by 0.001 when
\* it reaches the next range's lower bound
RECURSIVE ShrinkFrom(_, _, _)
ShrinkFrom(r, i, n) ==
    IF i > Len(r) - 1 THEN r
    ELSE IF r[i][2] >= r[i + 1][1]
         THEN ShrinkFrom([r EXCEPT ![i] = <<r[i][1], r[i][2] - EPS * n>>], i + 1, n)
         ELSE ShrinkFrom(r, i + 1, n)

ShrinkOverlaps(r, n) == ShrinkFrom(r, 1, n)

BreakResult(interior, filtered, lim, n) ==
    LET b == InjectBounds(interior, lim.min_value, lim.max_value, n)
    IN  [status |-> "ok", sample |-> filtered, breaks |-> b,
         break_ranges |-> ShrinkOverlaps(PairRanges(b), n)]

\* mutant: an empty filtered sample yields the two injected bounds alone
calculate_breaks_EmptySample(col, vc, gc) ==
    IF ~vc.present THEN {[status |-> "KeyError"]}
    ELSE
    LET lim == calculate_outliers_limits(col, vc)
        n   == gc.num_categories
    IN  IF lim.status # "ok" THEN {[status |-> lim.status]}
        ELSE
        LET filtered == df_filtered(col, lim)
        IN  IF vc.breaks_method = "percentiles" THEN
                IF filtered = <<>> THEN {BreakResult(<<>>, filtered, lim, n)}
                ELSE {BreakResult(PercentileBreaks(filtered, n), filtered, lim, n)}
            ELSE IF vc.breaks_method = "jenks" THEN
                IF filtered = <<>> THEN {BreakResult(<<>>, filtered, lim, n)}
                ELSE IF n < 2 \/ n > Len(filtered) THEN {[status |-> "ValueError"]}
                ELSE {BreakResult(j, filtered, lim, n) : j \in JenksBreaks(filtered, n)}
            ELSE {[status |-> "ValueError"]}

\* The set of outcomes of calculate_breaks(df, column)
calculate_breaks(col, vc, gc) ==
    IF ~vc.present THEN {[status |-> "KeyError"]}
    ELSE
    LET lim == calculate_outliers_limits(col, vc)
        n   == gc.num_categories
    IN  IF lim.status # "ok" THEN {[status |-> lim.status]}
        ELSE
        LET filtered == df_filtered(col, lim)
        IN  IF vc.breaks_method = "percentiles" THEN
                \* np.percentile of an empty sample raises
                IF filtered = <<>> THEN {[status |-> "IndexError"]}
                ELSE {BreakResult(PercentileBreaks(filtered, n), filtered, lim, n)}
            ELSE IF vc.breaks_method = "jenks" THEN
                \* jenkspy rejects n_classes < 2 and n_classes > len(values)
                IF n < 2 \/ n > Len(filtered) THEN {[status |-> "ValueError"]}
                ELSE {BreakResult(j, filtered, lim, n) : j \in JenksBreaks(filtered, n)}
            ELSE {[status |-> "ValueError"]}

\* -------------------------------------------------------- calculate_score
\* mutant: right=True, a value equal to a cut-point stays below it
Digitize_RightClosed(v, breaks, n) ==
    IF IsNull(v) THEN Len(breaks)
    ELSE Cardinality({i \in DOMAIN breaks : breaks[i] < v * n})

\* np.digitize(value, breaks, right=False) on ascending breaks: the number of
\* cut-points <= value; a NaN sorts after every cut-point.
Digitize(v, breaks, n) ==
    IF IsNull(v) THEN Len(breaks)
    ELSE Cardinality({i \in DOMAIN breaks : breaks[i] <= v * n})

\* np.clip(x, lo, hi) = minimum(maximum(x, lo), hi)
Clip(x, lo, hi) ==
    LET m == IF x < lo THEN lo ELSE x
    IN  IF m > hi THEN hi ELSE m

\* the bucket index after clipping to [score_min, num_categories]
Bucket(v, breaks, gc) ==
    Clip(Digitize(v, breaks, Scale(gc)), gc.score_range.min, gc.num_categories)

\* mutant: the two branches of `if inverse` are exchanged
ScoreOfBucket_Swapped(b, gc, inv) ==
    IF inv
    THEN gc.score_range.min + ((b - gc.score_range.min) * gc.score_range.step)
    ELSE gc.score_range.max - ((b - gc.score_range.min) * gc.score_range.step)

\* mutant: the inverse branch counts buckets from 1 instead of score_min
ScoreOfBucket_InverseFromOne(b, gc, inv) ==
    IF inv
    THEN gc.score_range.max - ((b - 1) * gc.score_range.step)
    ELSE gc.score_range.min + ((b - gc.score_range.min) * gc.score_range.step)

\* if inverse: score_max - (b - score_min) * step, else score_min + ...
ScoreOfBucket(b, gc, inv) ==
    IF inv
    THEN gc.score_range.max - ((b - gc.score_range.min) * gc.score_range.step)
    ELSE gc.score_range.min + ((b - gc.score_range.min) * gc.score_range.step)

None == <<>>

\* get_range_for_value: first range with lower <= value < upper, else the
\* last range when value equals its upper bound, else None
get_range_for_value(v, ranges, n) ==
    LET hit == {i \in DOMAIN ranges :
                    ~IsNull(v) /\ ranges[i][1] <= v * n /\ v * n < ranges[i][2]}
    IN  IF hit # {}
        THEN ranges[CHOOSE i \in hit : \A j \in hit : i <= j]
        ELSE IF ~IsNull(v) /\ v * n = ranges[Len(ranges)][2]
             THEN ranges[Len(ranges)]
             ELSE None

calculate_score(col, brk, rng, gc, inv) ==
    [scores       |-> [i \in DOMAIN col |-> ScoreOfBucket(Bucket(col[i], brk, gc), gc, inv)],
     value_ranges |-> [i \in DOMAIN col |-> get_range_for_value(col[i], rng, Scale(gc))]]

\* ============================================== segment_assigner.RFMProcessor
\* A DataFrame is [nrows, cols]: cols maps each column name to its cells.
HasColumn(d, c)  == c \in DOMAIN d.cols
WithColumn(d, c, cells) ==
    [d EXCEPT !.cols = [x \in (DOMAIN d.cols) \cup {c} |->
                            IF x = c THEN cells ELSE d.cols[x]]]
DropColumn(d, c) ==
    [d EXCEPT !.cols = [x \in (DOMAIN d.cols) \ {c} |-> d.cols[x]]]

\* str() of an integer
Digits == <<"0", "1", "2", "3", "4", "5", "6", "7", "8", "9">>

RECURSIVE NatToStr(_)
NatToStr(k) ==
    IF k < 10 THEN Digits[k + 1]
    ELSE NatToStr(k \div 10) \o Digits[(k % 10) + 1]

IntToStr(k) == IF k < 0 THEN "-" \o NatToStr(0 - k) ELSE NatToStr(k)

\* str() of the float64 s / 3 (the row mean of three integer scores), s in 0..15
ThirdsRepr ==
    <<"0.0", "0.3333333333333333", "0.6666666666666666",
      "1.0", "1.3333333333333333", "1.6666666666666667",
      "2.0", "2.3333333333333335", "2.6666666666666665",
      "3.0", "3.3333333333333335", "3.6666666666666665",
      "4.0", "4.333333333333333",  "4.666666666666667",
      "5.0">>

\* A Final_Score cell: a string (combinacion), an int (suma) or a float
\* holding num / 3 (promedio)
StrCell(t)   == [kind |-> "str",   text |-> t,  num |-> 0]
IntCell(k)   == [kind |-> "int",   text |-> "", num |-> k]
FloatCell(k) == [kind |-> "float", text |-> "", num |-> k]

\* str(score)
Str(cell) ==
    CASE cell.kind = "str"   -> cell.text
      [] cell.kind = "int"   -> IntToStr(cell.num)
      [] cell.kind = "float" -> ThirdsRepr[cell.num + 1]

ScoreColumns == {"Recency_score", "Frequency_score", "Monetary_score"}

\* mutant: Frequency is written before Recency
Combination_FrequencyFirst(r, f, m) == IntToStr(f) \o IntToStr(r) \o IntToStr(m)

\* df['Recency_score'].astype(str) + df['Frequency_score'].astype(str)
\*     + df['Monetary_score'].astype(str), for one row
Combination(r, f, m) == IntToStr(r) \o IntToStr(f) \o IntToStr(m)

\* mutant: 'suma' and 'promedio' add up whichever score columns the table has
calculate_final_score_PresentColumns(method, d) ==
    IF method \notin {"combinacion", "suma", "promedio"} THEN [status |-> "ValueError"]
    ELSE IF method = "combinacion" /\ ~(ScoreColumns \subseteq DOMAIN d.cols)
    THEN [status |-> "KeyError"]
    ELSE
    LET Cell(c, i) == IF c \in DOMAIN d.cols THEN d.cols[c][i] ELSE 0
        R == [i \in 1..d.nrows |-> Cell("Recency_score", i)]
        F == [i \in 1..d.nrows |-> Cell("Frequency_score", i)]
        M == [i \in 1..d.nrows |-> Cell("Monetary_score", i)]
    IN  [status |-> "ok",
         series |-> [i \in 1..d.nrows |->
            IF method = "combinacion" THEN StrCell(Combination(R[i], F[i], M[i]))
            ELSE IF method = "suma"   THEN IntCell(R[i] + F[i] + M[i])
            ELSE FloatCell(R[i] + F[i] + M[i])]]

\* calculate_final_score: the returned Series, or the exception raised
calculate_final_score(method, d) ==
    IF method \notin {"combinacion", "suma", "promedio"} THEN [status |-> "ValueError"]
    ELSE IF ~(ScoreColumns \subseteq DOMAIN d.cols) THEN [status |-> "KeyError"]
    ELSE
    LET R == d.cols["Recency_score"]
        F == d.cols["Frequency_score"]
        M == d.cols["Monetary_score"]
    IN  [status |-> "ok",
         series |-> [i \in 1..d.nrows |->
            IF method = "combinacion" THEN StrCell(Combination(R[i], F[i], M[i]))
            ELSE IF method = "suma"   THEN IntCell(R[i] + F[i] + M[i])
            ELSE FloatCell(R[i] + F[i] + M[i])]]

\* mutant: the calendar period keeps the month and forgets the year
ToPeriodM_MonthOnly(date) == <<date.month>>

\* Timestamp.to_period('M'): the year and the month of a date
ToPeriodM(date) == <<date.year, date.month>>

NoDate == [year |-> 0, month |-> 0, day |-> 0]   \* self.end_date was never set

\* df['IsNew'] for one row
IsNew(months, last, endDate) ==
    (months = 1) /\ (ToPeriodM(last) = ToPeriodM(endDate))

\* mutant: a later matching category overrides an earlier one
RECURSIVE categorize_LastMatch(_, _)
categorize_LastMatch(score, cats) ==
    IF cats = <<>> THEN "Sin Categoría"
    ELSE LET rest == categorize_LastMatch(score, Tail(cats))
         IN  IF rest # "Sin Categoría" THEN rest
             ELSE IF Str(score) \in Head(cats)[2] THEN Head(cats)[1]
             ELSE "Sin Categoría"

\* categorize(score): business_categories is the ordered list of
\* <<category, values>> items of the configuration dict
RECURSIVE categorize(_, _)
categorize(score, cats) ==
    IF cats = <<>> THEN "Sin Categoría"
    ELSE IF Str(score) \in Head(cats)[2] THEN Head(cats)[1]
    ELSE categorize(score, Tail(cats))

\* mutant: the score column is looked up after the IsNew helper column has
\* been stored
assign_business_categories_LateCheck(d, score_column, cats, endDate) ==
    IF ~HasColumn(d, "MonthsWithPurchases") \/ ~HasColumn(d, "LastPurchaseDate")
    THEN [status |-> "KeyError", df |-> d]
    ELSE IF endDate = NoDate THEN [status |-> "AttributeError", df |-> d]
    ELSE
    LET new  == [i \in 1..d.nrows |->
                    IsNew(d.cols["MonthsWithPurchases"][i],
                          d.cols["LastPurchaseDate"][i], endDate)]
        d1   == WithColumn(d, "IsNew", new)
    IN  IF ~HasColumn(d, score_column) THEN [status |-> "KeyError", df |-> d1]
        ELSE
        LET cat  == [i \in 1..d.nrows |->
                        IF new[i] THEN "Nuevo"
                        ELSE categorize(d.cols[score_column][i], cats)]
            d2   == WithColumn(d1, "Business_Category", cat)
        IN  [status |-> "ok", df |-> DropColumn(d2, "IsNew")]

\* mutant: the IsNew helper column is not dropped before returning
assign_business_categories_KeepsIsNew(d, score_column, cats, endDate) ==
    IF ~HasColumn(d, score_column) THEN [status |-> "KeyError", df |-> d]
    ELSE IF ~HasColumn(d, "MonthsWithPurchases") \/ ~HasColumn(d, "LastPurchaseDate")
    THEN [status |-> "KeyError", df |-> d]
    ELSE IF endDate = NoDate THEN [status |-> "AttributeError", df |-> d]
    ELSE
    LET new  == [i \in 1..d.nrows |->
                    IsNew(d.cols["MonthsWithPurchases"][i],
                          d.cols["LastPurchaseDate"][i], endDate)]
        d1   == WithColumn(d, "IsNew", new)
        cat  == [i \in 1..d.nrows |->
                    IF new[i] THEN "Nuevo"
                    ELSE categorize(d.cols[score_column][i], cats)]
    IN  [status |-> "ok", df |-> WithColumn(d1, "Business_Category", cat)]

\* assign_business_categories(df, score_column): the exception raised and
\* the DataFrame as the call leaves it (the DataFrame is changed in place)
assign_business_categories(d, score_column, cats, endDate) ==
    IF ~HasColumn(d, score_column) THEN [status |-> "KeyError", df |-> d]
    ELSE IF ~HasColumn(d, "MonthsWithPurchases") \/ ~HasColumn(d, "LastPurchaseDate")
    THEN [status |-> "KeyError", df |-> d]
    ELSE IF endDate = NoDate THEN [status |-> "AttributeError", df |-> d]
    ELSE
    LET new  == [i \in 1..d.nrows |->
                    IsNew(d.cols["MonthsWithPurchases"][i],
                          d.cols["LastPurchaseDate"][i], endDate)]
        d1   == WithColumn(d, "IsNew", new)
        cat  == [i \in 1..d.nrows |->
                    IF new[i] THEN "Nuevo"
                    ELSE categorize(d.cols[score_column][i], cats)]
        d2   == WithColumn(d1, "Business_Category", cat)
    IN  [status |-> "ok", df |-> DropColumn(d2, "IsNew")]

\* process_rfm(df)
\* (printed: the lines the method wrote to standard output, in order)
\* mutant: a failed final-score computation is reported and the table is
\* handed back as it is
process_rfm_SwallowsErrors(d, method, cats, endDate) ==
    LET fs == calculate_final_score(method, d)
    IN  IF fs.status # "ok"
        THEN [status |-> "ok", df |-> d,
              printed |-> <<"Calculando el score final...">>]
        ELSE
        LET d1 == WithColumn(d, "Final_Score", fs.series)
            a  == assign_business_categories(d1, "Final_Score", cats, endDate)
        IN  IF a.status # "ok"
            THEN [status |-> a.status, df |-> a.df,
                  printed |-> <<"Calculando el score final...",
                                "Asignando categorías de negocio...">>]
            ELSE [status |-> "ok",
                  df |-> WithColumn(a.df, "CutoffDate", [i \in 1..d.nrows |-> endDate]),
                  printed |-> <<"Calculando el score final...",
                                "Asignando categorías de negocio...",
                                "Procesamiento RFM completado.">>]

process_rfm(d, method, cats, endDate) ==
    LET fs == calculate_final_score(method, d)
    IN  IF fs.status # "ok"
        THEN [status |-> fs.status, df |-> d,
              printed |-> <<"Calculando el score final...">>]
        ELSE
        LET d1 == WithColumn(d, "Final_Score", fs.series)
            a  == assign_business_categories(d1, "Final_Score", cats, endDate)
        IN  IF a.status # "ok"
            THEN [status |-> a.status, df |-> a.df,
                  printed |-> <<"Calculando el score final...",
                                "Asignando categorías de negocio...">>]
            ELSE [status |-> "ok",
                  df |-> WithColumn(a.df, "CutoffDate", [i \in 1..d.nrows |-> endDate]),
                  printed |-> <<"Calculando el score final...",
                                "Asignando categorías de negocio...",
                                "Procesamiento RFM completado.">>]

\* RFMProcessor.__init__: the attributes after construction from a
\* configuration file f (f.loads = FALSE: load_config raised)
EndDate == [year |-> 2024, month |-> 12, day |-> 10]

RFMProcessor_init(f) ==
    IF f.loads
    THEN [score_method |-> IF f.has_score_method THEN f.score_method ELSE "combinación",
          business_categories |-> f.business_categories,
          end_date |-> EndDate,
          printed |-> <<>>]
    ELSE [score_method |-> "combinación", business_categories |-> <<>>,
          end_date |-> NoDate,
          printed |-> <<"Error al cargar el archivo de configuración">>]

\* ------------------------------------------------------- process_rfm_data
\* column.lower() for the variable names the configurations use
Lower(name) ==
    CASE name = "Recency"   -> "recency"
      [] name = "RECENCY"   -> "recency"
      [] name = "Frequency" -> "frequency"
      [] name = "Monetary"  -> "monetary"
      [] OTHER              -> name

\* mutant: an 'inverse' key of the variable's entry overrides the name test
InverseFor_FromConfig(column, var_config) ==
    IF var_config.present /\ var_config.inverse_setting # "unset"
    THEN var_config.inverse_setting = "true"
    ELSE Lower(column) = "recency"

\* inverse = True if column.lower() == "recency" else False
InverseFor(column, var_config) == Lower(column) = "recency"

\* the body of the try block for one configured variable: the outcomes of
\* calculate_breaks followed by calculate_score on the table d
ScoreVariable(d, column, var_config, gc) ==
    LET inv == InverseFor(column, var_config)
    IN  IF ~var_config.present \/ ~HasColumn(d, column) THEN {[status |-> "KeyError"]}
        ELSE {IF b.status = "ok"
              THEN LET sc == calculate_score(d.cols[column], b.breaks, b.break_ranges, gc, inv)
                   IN  [status |-> "ok", inverse |-> inv, scores |-> sc.scores,
                        value_ranges |-> sc.value_ranges]
              ELSE [status |-> b.status] :
                 b \in calculate_breaks(d.cols[column], var_config, gc)}

\* dict[key] = value
Put(f, k, v) == [x \in (DOMAIN f) \cup {k} |-> IF x = k THEN v ELSE f[x]]

SkipNotFound(column) == "Configuración no encontrada para la variable: " \o column
SkipError(column)    == "Error procesando la variable '" \o column \o "'"

\* mutant: a variable that failed still gets its two columns, left empty
Step_FailureKeepsColumns(acc, column, o) ==
    IF o.status = "ok"
    THEN [acc EXCEPT !.scores_dict = Put(Put(@, column \o "_score", o.scores),
                                         column \o "_range", o.value_ranges),
                     !.inverse = Put(@, column, o.inverse)]
    ELSE [acc EXCEPT !.scores_dict = Put(Put(@, column \o "_score", <<>>),
                                         column \o "_range", <<>>),
                     !.printed = Append(@, IF o.status = "KeyError"
                                           THEN SkipNotFound(column)
                                           ELSE SkipError(column))]

\* mutant: a line is printed for every variable, scored or not
Step_PrintsEveryVariable(acc, column, o) ==
    IF o.status = "ok"
    THEN [acc EXCEPT !.scores_dict = Put(Put(@, column \o "_score", o.scores),
                                         column \o "_range", o.value_ranges),
                     !.inverse = Put(@, column, o.inverse),
                     !.printed = Append(@, "Variable procesada: " \o column)]
    ELSE [acc EXCEPT !.printed = Append(@, IF o.status = "KeyError"
                                           THEN SkipNotFound(column)
                                           ELSE SkipError(column))]

\* one pass of the loop body: the two dictionary entries on success, the
\* printed line of the except clause that caught the failure otherwise
Step(acc, column, o) ==
    IF o.status = "ok"
    THEN [acc EXCEPT !.scores_dict = Put(Put(@, column \o "_score", o.scores),
                                         column \o "_range", o.value_ranges),
                     !.inverse = Put(@, column, o.inverse)]
    ELSE [acc EXCEPT !.printed = Append(@, IF o.status = "KeyError"
                                           THEN SkipNotFound(column)
                                           ELSE SkipError(column))]

\* for column, var_config in rfm_processor.variables_config.items(): ...
RECURSIVE ScoreFrom(_, _, _, _, _)
ScoreFrom(d, entries, gc, i, acc) ==
    IF i > Len(entries) THEN {acc}
    ELSE UNION {ScoreFrom(d, entries, gc, i + 1, Step(acc, entries[i].column, o)) :
                   o \in ScoreVariable(d, entries[i].column, entries[i].var_config, gc)}

\* pd.concat([rfm_data, scores_df], axis=1)
Concat(d, scores_dict) ==
    [nrows |-> d.nrows,
     cols  |-> [c \in (DOMAIN d.cols) \cup (DOMAIN scores_dict) |->
                  IF c \in DOMAIN scores_dict THEN scores_dict[c] ELSE d.cols[c]]]

\* mutant: the score and range columns are written into rfm_data itself
process_rfm_data_InPlace(d, entries, gc) ==
    {[rfm_data |-> Concat(d, acc.scores_dict),
      df_resultado |-> Concat(d, acc.scores_dict),
      printed |-> acc.printed, inverse |-> acc.inverse] :
        acc \in ScoreFrom(d, entries, gc, 1,
                          [scores_dict |-> <<>>, printed |-> <<>>, inverse |-> <<>>])}

\* process_rfm_data(rfm_processor, rfm_data): the outcomes of one call, each
\* with rfm_data as the call leaves it, the returned DataFrame, the lines
\* printed and the inverse flag used for every variable that was scored
process_rfm_data(d, entries, gc) ==
    {[rfm_data |-> d,
      df_resultado |-> Concat(d, acc.scores_dict),
      printed |-> acc.printed, inverse |-> acc.inverse] :
        acc \in ScoreFrom(d, entries, gc, 1,
                          [scores_dict |-> <<>>, printed |-> <<>>, inverse |-> <<>>])}

\* ================================================================ state
\* ================================================================= main.py
\* --------------------------------------------------- data_loader.DataLoader
\* days from 2023-01-01 to a date (2024 is a leap year)
MonthDays(year) ==
    <<31, IF year % 4 = 0 THEN 29 ELSE 28, 31, 30, 31, 30, 31, 31, 30, 31, 30, 31>>

RECURSIVE DaysBeforeMonth(_, _)
DaysBeforeMonth(year, month) ==
    IF month = 1 THEN 0
    ELSE DaysBeforeMonth(year, month - 1) + MonthDays(year)[month - 1]

RECURSIVE DaysBeforeYear(_)
DaysBeforeYear(year) ==
    IF year = 2023 THEN 0
    ELSE DaysBeforeYear(year - 1) + (IF (year - 1) % 4 = 0 THEN 366 ELSE 365)

DayNumber(date) ==
    DaysBeforeYear(date.year) + DaysBeforeMonth(date.year, date.month) + date.day

\* start_date of get_date_range_for_rfm (end_date is EndDate)
StartDate == [year |-> 2023, month |-> 12, day |-> 1]

\* df[mask]: the rows whose mask is TRUE, in their order
FilterRows(d, mask) ==
    LET kept == SelectSeq([i \in 1..d.nrows |-> i], LAMBDA i : mask[i])
    IN  [nrows |-> Len(kept),
         cols  |-> [c \in DOMAIN d.cols |-> [k \in 1..Len(kept) |-> d.cols[c][kept[k]]]]]

\* DataLoader.__init__ and the five constructors after it: load_config
\* and get_date_range_for_rfm on the same file
Constructors(f) ==
    IF ~f.loads THEN "FileNotFoundError"
    ELSE IF f.interval \notin {"months", "days", "years"} THEN "ValueError"
    ELSE "ok"

\* _process_dates_and_filter with parse_dates = [InvoiceDate]
process_dates_and_filter(d, filter_dates) ==
    IF filter_dates /\ HasColumn(d, "InvoiceDate")
    THEN FilterRows(d, [i \in 1..d.nrows |->
             /\ DayNumber(d.cols["InvoiceDate"][i]) >= DayNumber(StartDate)
             /\ DayNumber(d.cols["InvoiceDate"][i]) <= DayNumber(EndDate)])
    ELSE d

\* load_from_excel(excel_key, filter_dates): the table read, or the exception
load_from_excel(f, file, filter_dates) ==
    IF ~f.excel_source THEN [status |-> "ValueError"]
    ELSE IF ~file.exists THEN [status |-> "FileNotFoundError"]
    ELSE [status |-> "ok", data |-> process_dates_and_filter(file.table, filter_dates)]

\* ------------------------------------------ preprocessing.DataPreprocessor
\* handle_duplicates with its default parameters:
\* df.drop_duplicates(subset=df.columns, keep='first')
handle_duplicates(d) ==
    FilterRows(d, [i \in 1..d.nrows |->
        ~\E j \in 1..(i - 1) : \A c \in DOMAIN d.cols : d.cols[c][j] = d.cols[c][i]])

\* apply_preprocessing_to_source: the configured steps in order; a step
\* name that is not in AVAILABLE_STEPS is passed over
RECURSIVE ApplySteps(_, _, _)
ApplySteps(d, steps, i) ==
    IF i > Len(steps) THEN d
    ELSE ApplySteps(IF steps[i] = "handle_duplicates" THEN handle_duplicates(d) ELSE d,
                    steps, i + 1)

apply_preprocessing_to_source(f, d) == ApplySteps(d, f.steps, 1)

\* ----------------------------------------------- rfm_calculator.RFMCalculator
RECURSIVE SortedSeq(_)
SortedSeq(S) ==
    IF S = {} THEN <<>>
    ELSE LET m == CHOOSE x \in S : \A y \in S : x <= y
         IN  <<m>> \o SortedSeq(S \ {m})

RequiredColumns == {"CustomerID", "InvoiceDate", "UnitPrice"}

\* calculate_rfm(data): one row per customer, customers in ascending order
calculate_rfm(d) ==
    IF ~(RequiredColumns \subseteq DOMAIN d.cols) THEN [status |-> "KeyError"]
    ELSE
    LET customers == SortedSeq({d.cols["CustomerID"][i] : i \in 1..d.nrows})
        RowsOf(c) == {i \in 1..d.nrows : d.cols["CustomerID"][i] = c}
        DatesOf(c) == {d.cols["InvoiceDate"][i] : i \in RowsOf(c)}
        LastOf(c) == CHOOSE x \in DatesOf(c) :
                        \A y \in DatesOf(c) : DayNumber(y) <= DayNumber(x)
        IdxOf(c) == SelectSeq([i \in 1..d.nrows |-> i], LAMBDA i : i \in RowsOf(c))
    IN  [status |-> "ok",
         rfm_data |->
           [nrows |-> Len(customers),
            cols  |->
              [c \in {"CustomerID", "Recency", "Frequency", "Monetary",
                      "LastPurchaseDate", "MonthsWithPurchases"} |->
                 [k \in 1..Len(customers) |->
                    CASE c = "CustomerID" -> customers[k]
                      [] c = "Recency" ->
                            DayNumber(EndDate) - DayNumber(LastOf(customers[k]))
                      [] c = "Frequency" -> Cardinality(DatesOf(customers[k]))
                      [] c = "Monetary" ->
                            SumSeq([j \in 1..Len(IdxOf(customers[k])) |->
                                       d.cols["UnitPrice"][IdxOf(customers[k])[j]]])
                      [] c = "LastPurchaseDate" -> LastOf(customers[k])
                      [] c = "MonthsWithPurchases" ->
                            Cardinality({ToPeriodM(x) : x \in DatesOf(customers[k])})]]]]

\* --------------------------------------------------- exporter.DataExporter
\* export_to_csv(data, "results_csv"): the file written and the line
\* printed; the method catches what it raises
export_to_csv(f, d) ==
    IF f.export_source
    THEN [csv |-> [written |-> TRUE, table |-> d],
          printed |-> <<"Datos exportados a CSV en " \o f.export_path>>]
    ELSE [csv |-> [written |-> FALSE],
          printed |-> <<"Error al exportar a CSV: No se encontró la configuración para 'results_csv' en el archivo YAML.">>]

VARIABLES
    column,            \* df[column]: the values of the scored variable
    variables_config,  \* self.variables_config[column] (present = FALSE: no entry)
    global_config,     \* self.global_config: num_categories, score_range
    pc,                \* "start", "breaks", "raised", "scored"
    error,             \* the exception calculate_breaks raised, or "none"
    sample,            \* df_filtered[column]: the values the cut-points come from
    breaks,            \* cut-points returned by calculate_breaks
    break_ranges,      \* ranges returned by calculate_breaks
    inverse,           \* the inverse argument of calculate_score
    scores,            \* scores returned by calculate_score
    value_ranges,      \* ranges returned by calculate_score
    limits,            \* what a direct call of calculate_outliers_limits returned
    df,                \* the DataFrame handed to RFMProcessor
    score_method,      \* RFMProcessor.score_method
    business_categories, \* RFMProcessor.business_categories, in declaration order
    end_date,          \* RFMProcessor.end_date (NoDate: attribute not set)
    seg_pc,            \* "start", "returned", "assigned", "processed", "raised"
    seg_error,         \* the exception the RFMProcessor call raised, or "none"
    returned,          \* the Series returned by calculate_final_score
    seg_call,          \* the RFMProcessor method that was called, or "none"
    df_in,             \* the DataFrame as it was when the call was made
    stdout,            \* the lines printed so far, in order
    rfm_data,          \* the DataFrame handed to process_rfm_data
    variables,         \* rfm_processor.variables_config: the entries, in file order
    runs,              \* one record per finished process_rfm_data call
    pipe_pc,           \* "idle", "start", "ran"
    main_pc,           \* the statement of main.py that runs next ("idle": main is not run)
    config,            \* config/configuracion.yaml as main finds it
    excel,             \* the Excel source the configuration points to
    data,              \* data: what load_from_excel returned
    data_processed,    \* data_processed: what apply_preprocessing_to_source returned
    stages,            \* the stages main has called so far, in call order, each with
                       \* whether the call raised
    csv                \* the file export_to_csv wrote (written = FALSE: none)

scoringVars == <<column, variables_config, global_config, pc, error, sample, breaks,
                 break_ranges, inverse, scores, value_ranges, limits>>

segmentVars == <<df, score_method, business_categories, end_date, seg_pc,
                 seg_error, returned, seg_call, df_in>>

pipelineVars == <<rfm_data, variables, runs, pipe_pc>>

mainVars == <<main_pc, config, excel, data, data_processed, stages, csv>>

vars == <<scoringVars, segmentVars, stdout, pipelineVars, mainVars>>

RECURSIVE SeqsUpTo(_, _)
SeqsUpTo(S, n) ==
    IF n = 0 THEN {<<>>}
    ELSE LET shorter == SeqsUpTo(S, n - 1)
         IN  shorter \cup {Append(s, x) : s \in {t \in shorter : Len(t) = n - 1}, x \in S}

Values  == {NaN} \cup (0..MaxVal)
Columns == SeqsUpTo(Values, MaxLen)

NoConfig == [present |-> FALSE]

OutlierSettings ==
    {[outlier_method |-> "IQR",         iqr_factor2 |-> 3, std_dev_factor |-> 2,
      percentile_lower |-> 5,  percentile_upper |-> 95],
     [outlier_method |-> "std_dev",     iqr_factor2 |-> 3, std_dev_factor |-> 2,
      percentile_lower |-> 5,  percentile_upper |-> 95],
     [outlier_method |-> "std_dev",     iqr_factor2 |-> 3, std_dev_factor |-> 1,
      percentile_lower |-> 5,  percentile_upper |-> 95],
     [outlier_method |-> "percentiles", iqr_factor2 |-> 3, std_dev_factor |-> 2,
      percentile_lower |-> 5,  percentile_upper |-> 95],
     [outlier_method |-> "zscore",      iqr_factor2 |-> 3, std_dev_factor |-> 2,
      percentile_lower |-> 5,  percentile_upper |-> 95]}

BreaksMethods == {"percentiles", "jenks", "kmeans"}

VariableConfigs ==
    {NoConfig} \cup
    {[present |-> TRUE, outlier_method |-> o.outlier_method,
      iqr_factor2 |-> o.iqr_factor2, std_dev_factor |-> o.std_dev_factor,
      percentile_lower |-> o.percentile_lower, percentile_upper |-> o.percentile_upper,
      breaks_method |-> b] : o \in OutlierSettings, b \in BreaksMethods}

ScoreRanges ==
    {[min |-> 1, max |-> 3, step |-> 1],
     [min |-> 1, max |-> 5, step |-> 1],
     [min |-> 1, max |-> 5, step |-> 2],
     [min |-> 0, max |-> 2, step |-> 1]}

GlobalConfigs ==
    {[num_categories |-> n, score_range |-> r] : n \in 1..MaxCat, r \in ScoreRanges}

\* ------------------------------------------------- tables and configurations
MaxRows == 2     \* most rows of a DataFrame

ScoreTriples == {<<5, 2, 4>>, <<4, 5, 3>>}

PurchaseDates ==
    {[year |-> 2024, month |-> 12, day |-> 1],
     [year |-> 2024, month |-> 11, day |-> 30],
     [year |-> 2023, month |-> 12, day |-> 10]}

Rows ==
    {[rfm |-> t, months |-> m, last |-> d] :
        t \in ScoreTriples, m \in 1..2, d \in PurchaseDates}

\* the table process_rfm_data hands over; with_final: the caller has already
\* stored a combination Final_Score column
MakeDf(rows, with_final) ==
    LET base == [c \in ScoreColumns \cup {"MonthsWithPurchases", "LastPurchaseDate"} |->
                    [i \in DOMAIN rows |->
                        CASE c = "Recency_score"       -> rows[i].rfm[1]
                          [] c = "Frequency_score"     -> rows[i].rfm[2]
                          [] c = "Monetary_score"      -> rows[i].rfm[3]
                          [] c = "MonthsWithPurchases" -> rows[i].months
                          [] c = "LastPurchaseDate"    -> rows[i].last]]
        d    == [nrows |-> Len(rows), cols |-> base]
    IN  IF with_final
        THEN WithColumn(d, "Final_Score",
                 [i \in DOMAIN rows |->
                     StrCell(Combination(rows[i].rfm[1], rows[i].rfm[2], rows[i].rfm[3]))])
        ELSE d

Tables == {MakeDf(r, w) : r \in SeqsUpTo(Rows, MaxRows), w \in BOOLEAN}

\* a table that reaches RFMProcessor without one of the three score columns
\* (process_rfm_data skipped that variable)
IncompleteTables == {DropColumn(t, c) : t \in Tables, c \in ScoreColumns}

\* a table handed to RFMProcessor without the MonthsWithPurchases column
\* that line 89 reads
TablesWithoutMonths == {DropColumn(t, "MonthsWithPurchases") : t \in Tables}

\* business_categories sections of the configuration file; the reserved
\* labels "Nuevo" and "Sin Categoría" are not used as category names
CategoryConfigs ==
    {<<>>,
     <<<<"Campeones", {"524", "453"}>>>>,
     <<<<"Campeones", {"524", "11"}>>, <<"Leales", {"524", "453", "4.0"}>>>>,
     <<<<"Leales", {"524", "453", "4.0"}>>, <<"Campeones", {"524", "11"}>>>>}

ScoreMethods == {"combinacion", "combinación", "suma", "promedio"}

ConfigFiles ==
    {[loads |-> FALSE]} \cup
    {[loads |-> TRUE, has_score_method |-> TRUE, score_method |-> m,
      business_categories |-> c] : m \in ScoreMethods, c \in CategoryConfigs} \cup
    {[loads |-> TRUE, has_score_method |-> FALSE, score_method |-> "",
      business_categories |-> c] : c \in CategoryConfigs}

EmptyDf == [nrows |-> 0, cols |-> <<>>]

\* calculate_outliers_limits has not been called on its own
NoLimits == [status |-> "none"]

\* no process_rfm_data call in progress
PipelineIdle ==
    /\ rfm_data = EmptyDf
    /\ variables = <<>>
    /\ runs = <<>>
    /\ pipe_pc = "idle"

\* main.py is not run
NoFile == [written |-> FALSE]

MainIdle ==
    /\ main_pc = "idle"
    /\ config = [loads |-> FALSE]
    /\ excel = [exists |-> FALSE]
    /\ data = EmptyDf
    /\ data_processed = EmptyDf
    /\ stages = <<>>
    /\ csv = NoFile

\* no RFMProcessor call in progress
SegmentIdle ==
    /\ df = EmptyDf
    /\ score_method = ""
    /\ business_categories = <<>>
    /\ end_date = NoDate
    /\ seg_pc = "idle"
    /\ seg_error = "none"
    /\ returned = <<>>
    /\ seg_call = "none"
    /\ df_in = EmptyDf

\* no RFMProcessing call in progress
ScoringIdle ==
    /\ column = <<>>
    /\ variables_config = NoConfig
    /\ global_config = [num_categories |-> 1, score_range |-> [min |-> 1, max |-> 1, step |-> 1]]
    /\ pc = "idle"
    /\ error = "none"
    /\ sample = <<>>
    /\ breaks = <<>>
    /\ break_ranges = <<>>
    /\ inverse = FALSE
    /\ scores = <<>>
    /\ value_ranges = <<>>
    /\ limits = NoLimits

Init ==
    /\ MainIdle
    /\ SegmentIdle
    /\ PipelineIdle
    /\ stdout = <<>>
    /\ column \in Columns
    /\ variables_config \in VariableConfigs
    /\ global_config \in GlobalConfigs
    /\ pc = "start"
    /\ error = "none"
    /\ sample = <<>>
    /\ breaks = <<>>
    /\ break_ranges = <<>>
    /\ inverse = FALSE
    /\ scores = <<>>
    /\ value_ranges = <<>>
    /\ limits = NoLimits

\* breaks, break_ranges = rfm_processor.calculate_breaks(rfm_data, column)
CalculateBreaks ==
    /\ pc = "start"
    /\ \E r \in calculate_breaks(column, variables_config, global_config) :
          IF r.status = "ok"
          THEN /\ pc' = "breaks"
               /\ sample' = r.sample
               /\ breaks' = r.breaks
               /\ break_ranges' = r.break_ranges
               /\ error' = "none"
          ELSE /\ pc' = "raised"
               /\ error' = r.status
               /\ UNCHANGED <<sample, breaks, break_ranges>>
    /\ UNCHANGED <<column, variables_config, global_config, inverse, scores, value_ranges,
                   limits>>
    /\ UNCHANGED <<segmentVars, stdout, pipelineVars, mainVars>>

\* scores, value_ranges = rfm_processor.calculate_score(rfm_data, column,
\*                            breaks, break_ranges, inverse=inverse)
CalculateScore ==
    /\ pc = "breaks"
    /\ \E inv \in BOOLEAN :
          LET r == calculate_score(column, breaks, break_ranges, global_config, inv)
          IN  /\ inverse' = inv
              /\ scores' = r.scores
              /\ value_ranges' = r.value_ranges
    /\ pc' = "scored"
    /\ UNCHANGED <<column, variables_config, global_config, error, sample, breaks,
                   break_ranges, limits>>
    /\ UNCHANGED <<segmentVars, stdout, pipelineVars, mainVars>>

Next == CalculateBreaks \/ CalculateScore

Spec == Init /\ [][Next]_vars

\* The same engine with every variable configured for the percentiles breaks
\* method (the branch whose cut-points the model computes exactly).
InitPercentiles ==
    /\ Init
    /\ variables_config.present
    /\ variables_config.breaks_method = "percentiles"

SpecPercentiles == InitPercentiles /\ [][Next]_vars

\* ------------------------------------------------- the ten-value column
\* The column 10, 20, ..., 100 scored with IQR bounds, percentiles breaks,
\* five categories and scores 1..5 in steps of 1.
One == 2000            \* 1.0 in units of 0.0005 (1000 * EPS)

TenValues == [i \in 1..10 |-> 10 * i * One]

\* the rows of the column in ascending order, or with two of them exchanged
TenValueColumns ==
    {[i \in 1..10 |-> IF i = a THEN TenValues[b]
                      ELSE IF i = b THEN TenValues[a] ELSE TenValues[i]] :
        a \in 1..10, b \in 1..10}

InitTenValues ==
    /\ MainIdle
    /\ SegmentIdle
    /\ PipelineIdle
    /\ stdout = <<>>
    /\ column \in TenValueColumns
    /\ variables_config = [present |-> TRUE, outlier_method |-> "IQR",
                           iqr_factor2 |-> 3, std_dev_factor |-> 2,
                           percentile_lower |-> 5, percentile_upper |-> 95,
                           breaks_method |-> "percentiles"]
    /\ global_config = [num_categories |-> 5,
                        score_range |-> [min |-> 1, max |-> 5, step |-> 1]]
    /\ pc = "start"
    /\ error = "none"
    /\ sample = <<>>
    /\ breaks = <<>>
    /\ break_ranges = <<>>
    /\ inverse = FALSE
    /\ scores = <<>>
    /\ value_ranges = <<>>
    /\ limits = NoLimits

SpecTenValues == InitTenValues /\ [][Next]_vars

\* ------------------------------------------------- process_rfm_data calls
MaxVars == 2     \* most variables in the configuration
MaxRuns == 2     \* most process_rfm_data calls in a row

VariableNames == {"Recency", "recency", "RECENCY", "Frequency"}

\* the variable columns of rfm_data: a recency column under one of its
\* spellings and a frequency column
TableNameSets == {{"Recency", "Frequency"}, {"recency", "Frequency"},
                  {"RECENCY", "Frequency"}}

PipelineColumns == {<<0, 2, 3>>, <<3, NaN, 0>>, <<NaN, NaN, NaN>>}

PipelineTables ==
    {[nrows |-> 3, cols |-> c] : c \in UNION {[S -> PipelineColumns] : S \in TableNameSets}}

\* the entries of the variables section; inverse_setting is a key the file
\* may carry and the code never reads; NoConfig is an entry left empty
PipelineEntry(breaks_method, inverse_setting) ==
    [present |-> TRUE, outlier_method |-> "IQR",
     iqr_factor2 |-> 3, std_dev_factor |-> 2,
     percentile_lower |-> 5, percentile_upper |-> 95,
     breaks_method |-> breaks_method, inverse_setting |-> inverse_setting]

PercentilesEntries ==
    {PipelineEntry("percentiles", i) : i \in {"unset", "true", "false"}}

\* (the jenks method is left to the calculate_breaks calls above: the model
\* does not compute the library's cut-points)
PipelineEntries ==
    {NoConfig, PipelineEntry("kmeans", "unset")} \cup PercentilesEntries

\* the ordered entries of a configuration: the names are the keys of a
\* mapping, so no name is repeated
VariableLists ==
    {l \in SeqsUpTo({[column |-> c, var_config |-> v] :
                        c \in VariableNames, v \in PipelineEntries}, MaxVars) :
        \A i, j \in DOMAIN l : i # j => l[i].column # l[j].column}

InitPipeline ==
    /\ MainIdle
    /\ SegmentIdle
    /\ stdout = <<>>
    /\ column = <<>>
    /\ variables_config = NoConfig
    /\ global_config = [num_categories |-> 3, score_range |-> [min |-> 1, max |-> 3, step |-> 1]]
    /\ pc = "idle"
    /\ error = "none"
    /\ sample = <<>>
    /\ breaks = <<>>
    /\ break_ranges = <<>>
    /\ inverse = FALSE
    /\ scores = <<>>
    /\ value_ranges = <<>>
    /\ limits = NoLimits
    /\ rfm_data \in PipelineTables
    /\ variables \in VariableLists
    /\ runs = <<>>
    /\ pipe_pc = "start"

\* df_resultado = rfm_processor.process_rfm_data(rfm_data)
ProcessRfmData ==
    /\ pipe_pc \in {"start", "ran"}
    /\ Len(runs) < MaxRuns
    /\ \E r \in process_rfm_data(rfm_data, variables, global_config) :
          /\ rfm_data' = r.rfm_data
          /\ runs' = Append(runs, [rfm_data |-> rfm_data, variables |-> variables,
                                   global_config |-> global_config,
                                   df_resultado |-> r.df_resultado,
                                   printed |-> r.printed, inverse |-> r.inverse])
          /\ stdout' = stdout \o r.printed
    /\ pipe_pc' = "ran"
    /\ UNCHANGED <<variables, scoringVars, segmentVars, mainVars>>

NextPipeline == ProcessRfmData

SpecPipeline == InitPipeline /\ [][NextPipeline]_vars

\* ---------------------------------------- calculate_outliers_limits calls
\* var_config.get(...) defaults of calculate_outliers_limits
Defaults ==
    [iqr_factor2 |-> 3, std_dev_factor |-> 2, percentile_lower |-> 5, percentile_upper |-> 95]

\* a variable's entry: the outlier method and the parameters the file sets,
\* the others at their defaults
OutlierEntry(method, params) ==
    [present |-> TRUE, outlier_method |-> method,
     iqr_factor2      |-> params.iqr_factor2,
     std_dev_factor   |-> params.std_dev_factor,
     percentile_lower |-> params.percentile_lower,
     percentile_upper |-> params.percentile_upper,
     breaks_method    |-> "percentiles"]

IqrFactors2    == {3, 0, 1, -3}       \* iqr_factor 1.5 (default), 0, 0.5, -1.5
StdDevFactors  == {2, 0, 1, -1}
PercentilePairs == {<<5, 95>>, <<25, 75>>, <<50, 50>>, <<0, 100>>, <<95, 5>>}

LimitConfigs ==
    {NoConfig}
    \cup {OutlierEntry("IQR", [Defaults EXCEPT !.iqr_factor2 = f]) : f \in IqrFactors2}
    \cup {OutlierEntry("std_dev", [Defaults EXCEPT !.std_dev_factor = k]) : k \in StdDevFactors}
    \cup {OutlierEntry("percentiles",
              [Defaults EXCEPT !.percentile_lower = p[1], !.percentile_upper = p[2]]) :
                 p \in PercentilePairs}
    \cup {OutlierEntry(m, Defaults) : m \in {"zscore", "iqr"}}

InitLimits ==
    /\ MainIdle
    /\ SegmentIdle
    /\ PipelineIdle
    /\ stdout = <<>>
    /\ column \in Columns
    /\ variables_config \in LimitConfigs
    /\ global_config = [num_categories |-> 1, score_range |-> [min |-> 1, max |-> 1, step |-> 1]]
    /\ pc = "start"
    /\ error = "none"
    /\ sample = <<>>
    /\ breaks = <<>>
    /\ break_ranges = <<>>
    /\ inverse = FALSE
    /\ scores = <<>>
    /\ value_ranges = <<>>
    /\ limits = NoLimits

\* LI, LS, IQR, min_value, max_value = self.calculate_outliers_limits(df, column)
CalculateOutliersLimits ==
    /\ pc = "start"
    /\ LET r == calculate_outliers_limits(column, variables_config)
       IN  /\ limits' = r
           /\ pc' = IF r.status = "ok" THEN "limits" ELSE "raised"
           /\ error' = IF r.status = "ok" THEN "none" ELSE r.status
    /\ UNCHANGED <<column, variables_config, global_config, sample, breaks, break_ranges,
                   inverse, scores, value_ranges>>
    /\ UNCHANGED <<segmentVars, stdout, pipelineVars, mainVars>>

NextLimits == CalculateOutliersLimits

SpecLimits == InitLimits /\ [][NextLimits]_vars

\* ------------------------------------------------------- RFMProcessor calls
InitSegment ==
    /\ MainIdle
    /\ ScoringIdle
    /\ PipelineIdle
    /\ df \in Tables \cup IncompleteTables \cup TablesWithoutMonths
    /\ \E f \in ConfigFiles :
          LET self == RFMProcessor_init(f)
          IN  /\ score_method = self.score_method
              /\ business_categories = self.business_categories
              /\ end_date = self.end_date
              /\ stdout = self.printed
    /\ seg_pc = "start"
    /\ seg_error = "none"
    /\ returned = <<>>
    /\ seg_call = "none"
    /\ df_in = df

\* rfm_assigner.calculate_final_score(df)
CalculateFinalScore ==
    /\ seg_pc = "start"
    /\ LET r == calculate_final_score(score_method, df)
       IN  IF r.status = "ok"
           THEN /\ returned' = r.series
                /\ seg_pc' = "returned"
                /\ seg_error' = "none"
           ELSE /\ returned' = <<>>
                /\ seg_pc' = "raised"
                /\ seg_error' = r.status
    /\ seg_call' = "calculate_final_score"
    /\ UNCHANGED <<df, score_method, business_categories, end_date, df_in, stdout>>
    /\ UNCHANGED <<scoringVars, pipelineVars, mainVars>>

\* rfm_assigner.assign_business_categories(df)   (score_column = "Final_Score")
AssignBusinessCategories ==
    /\ seg_pc = "start"
    /\ LET r == assign_business_categories(df, "Final_Score", business_categories, end_date)
       IN  /\ df' = r.df
           /\ seg_pc' = IF r.status = "ok" THEN "assigned" ELSE "raised"
           /\ seg_error' = IF r.status = "ok" THEN "none" ELSE r.status
    /\ seg_call' = "assign_business_categories"
    /\ UNCHANGED <<score_method, business_categories, end_date, returned, df_in, stdout>>
    /\ UNCHANGED <<scoringVars, pipelineVars, mainVars>>

\* rfm_assigner.process_rfm(df)
ProcessRfm ==
    /\ seg_pc = "start"
    /\ LET r == process_rfm(df, score_method, business_categories, end_date)
       IN  /\ df' = r.df
           /\ seg_pc' = IF r.status = "ok" THEN "processed" ELSE "raised"
           /\ seg_error' = IF r.status = "ok" THEN "none" ELSE r.status
           /\ stdout' = stdout \o r.printed
    /\ seg_call' = "process_rfm"
    /\ UNCHANGED <<score_method, business_categories, end_date, returned, df_in>>
    /\ UNCHANGED <<scoringVars, pipelineVars, mainVars>>

NextSegment == CalculateFinalScore \/ AssignBusinessCategories \/ ProcessRfm

SpecSegment == InitSegment /\ [][NextSegment]_vars

\* ------------------------------------------------------ any engine call
\* The engine as a whole: a call of RFMProcessing on one column, a
\* process_rfm_data call, or a call of RFMProcessor, each from its own
\* initial states.
InitEngine == Init \/ InitLimits \/ InitPipeline \/ InitSegment

NextEngine == Next \/ NextLimits \/ NextPipeline \/ NextSegment

SpecEngine == InitEngine /\ [][NextEngine]_vars

\* ------------------------------------------------------------ main.py
\* The driver: the constructors, then the six stages, all inside one try
\* block whose except clause prints the error.
MaxTx == 2       \* most rows of the Excel source

TxDates ==
    {[year |-> 2024, month |-> 12, day |-> 1],
     [year |-> 2023, month |-> 12, day |-> 10],
     [year |-> 2024, month |-> 12, day |-> 11]}

TxRows == {[customer |-> c, date |-> d, price |-> 2] : c \in 1..2, d \in TxDates}

MakeRaw(rows) ==
    [nrows |-> Len(rows),
     cols  |-> [c \in RequiredColumns |->
                  [i \in DOMAIN rows |->
                      CASE c = "CustomerID"  -> rows[i].customer
                        [] c = "InvoiceDate" -> rows[i].date
                        [] c = "UnitPrice"   -> rows[i].price]]]

RawTables == {MakeRaw(r) : r \in SeqsUpTo(TxRows, MaxTx)}

\* the Excel source: absent, a sheet of transactions, or a sheet without
\* the price column
ExcelFiles ==
    {[exists |-> FALSE]}
    \cup {[exists |-> TRUE, table |-> t] : t \in RawTables}
    \cup {[exists |-> TRUE, table |-> DropColumn(t, "UnitPrice")] : t \in RawTables}

MainEntry(name, entry) == [column |-> name, var_config |-> entry]

\* the variables section: the three variables configured, Monetary with an
\* unsupported breaks method, Monetary left out, Monetary left empty, and
\* Recency spelled in lower case
MainVariableLists ==
    LET pct == PipelineEntry("percentiles", "unset")
    IN  {<<MainEntry("Recency", pct), MainEntry("Frequency", pct), MainEntry("Monetary", pct)>>,
         <<MainEntry("Recency", pct), MainEntry("Frequency", pct),
           MainEntry("Monetary", PipelineEntry("kmeans", "unset"))>>,
         <<MainEntry("Recency", pct), MainEntry("Frequency", pct)>>,
         <<MainEntry("Recency", pct), MainEntry("Frequency", pct), MainEntry("Monetary", NoConfig)>>,
         <<MainEntry("recency", pct), MainEntry("Frequency", pct), MainEntry("Monetary", pct)>>}

StepLists == {<<>>, <<"handle_duplicates">>, <<"normalize">>,
              <<"normalize", "handle_duplicates">>}

BaseConfig ==
    [loads |-> TRUE, interval |-> "months", excel_source |-> TRUE, steps |-> <<>>,
     variables |-> <<>>,
     global_settings |-> [num_categories |-> 3,
                          score_range |-> [min |-> 1, max |-> 3, step |-> 1]],
     has_score_method |-> TRUE, score_method |-> "combinacion",
     business_categories |-> <<<<"Campeones", {"133", "233", "6"}>>,
                               <<"En riesgo", {"311", "3"}>>>>,
     export_source |-> TRUE, export_path |-> "output/rfm_result.csv"]

MainConfigs ==
    {[loads |-> FALSE]}
    \cup {[BaseConfig EXCEPT !.variables = v, !.steps = s] :
             v \in MainVariableLists, s \in StepLists}
    \cup {[BaseConfig EXCEPT !.variables = v, !.score_method = m] :
             v \in MainVariableLists, m \in ScoreMethods}
    \cup {[BaseConfig EXCEPT !.variables = v, !.has_score_method = FALSE,
                             !.score_method = ""] : v \in MainVariableLists}
    \cup {[BaseConfig EXCEPT !.variables = v, !.interval = "weeks"] : v \in MainVariableLists}
    \cup {[BaseConfig EXCEPT !.variables = v, !.excel_source = FALSE] : v \in MainVariableLists}
    \cup {[BaseConfig EXCEPT !.variables = v, !.export_source = FALSE] : v \in MainVariableLists}

InitMain ==
    /\ ScoringIdle
    /\ SegmentIdle
    /\ PipelineIdle
    /\ stdout = <<>>
    /\ main_pc = "start"
    /\ config \in MainConfigs
    /\ excel \in ExcelFiles
    /\ data = EmptyDf
    /\ data_processed = EmptyDf
    /\ stages = <<>>
    /\ csv = NoFile

\* one entry of stages
Called(name, status) == [name |-> name, raised |-> status # "ok"]

\* except Exception as e: print(f"Error: {e}")
\* (the exception's type stands for its message)
ErrorLine(e) == "Error: " \o e

\* lines 17-32: the six constructors
MainConstruct ==
    /\ main_pc = "start"
    /\ LET st == Constructors(config)
       IN  IF st = "ok"
           THEN LET self == RFMProcessor_init(config)
                IN  /\ variables' = config.variables
                    /\ global_config' = config.global_settings
                    /\ score_method' = self.score_method
                    /\ business_categories' = self.business_categories
                    /\ end_date' = self.end_date
                    /\ stdout' = stdout \o self.printed
                    /\ main_pc' = "load"
           ELSE /\ stdout' = Append(stdout, ErrorLine(st))
                /\ main_pc' = "caught"
                /\ UNCHANGED <<variables, global_config, score_method,
                               business_categories, end_date>>
    /\ UNCHANGED <<column, variables_config, pc, error, sample, breaks, break_ranges,
                   inverse, scores, value_ranges, limits>>
    /\ UNCHANGED <<df, seg_pc, seg_error, returned, seg_call, df_in>>
    /\ UNCHANGED <<rfm_data, runs, pipe_pc>>
    /\ UNCHANGED <<config, excel, data, data_processed, stages, csv>>

\* line 35: data = data_loader.load_from_excel(excel_key='retail_data', filter_dates=True)
MainLoad ==
    /\ main_pc = "load"
    /\ LET r == load_from_excel(config, excel, TRUE)
       IN  /\ stages' = Append(stages, Called("load", r.status))
           /\ IF r.status = "ok"
              THEN /\ data' = r.data
                   /\ main_pc' = "preprocess"
                   /\ UNCHANGED stdout
              ELSE /\ stdout' = Append(stdout, ErrorLine(r.status))
                   /\ main_pc' = "caught"
                   /\ UNCHANGED data
    /\ UNCHANGED <<scoringVars, segmentVars, pipelineVars>>
    /\ UNCHANGED <<config, excel, data_processed, csv>>

\* lines 38-42: data_processed = preprocessor.apply_preprocessing_to_source(data, "retail_data")
\* (the printed head() of a table is written as the table's name)
MainPreprocess ==
    /\ main_pc = "preprocess"
    /\ stages' = Append(stages, Called("preprocess", "ok"))
    /\ data_processed' = apply_preprocessing_to_source(config, data)
    /\ stdout' = stdout \o <<"\nDatos después del preprocesamiento:", "data_processed.head()">>
    /\ main_pc' = "aggregate"
    /\ UNCHANGED <<scoringVars, segmentVars, pipelineVars>>
    /\ UNCHANGED <<config, excel, data, csv>>

\* lines 45-48: rfm_data = rfm_calculator.calculate_rfm(data_processed)
MainAggregate ==
    /\ main_pc = "aggregate"
    /\ LET r == calculate_rfm(data_processed)
       IN  /\ stages' = Append(stages, Called("aggregate", r.status))
           /\ IF r.status = "ok"
              THEN /\ rfm_data' = r.rfm_data
                   /\ stdout' = stdout \o <<"\nResultados del cálculo de RFM:",
                                            "rfm_data.head()">>
                   /\ main_pc' = "score"
              ELSE /\ stdout' = Append(stdout, ErrorLine(r.status))
                   /\ main_pc' = "caught"
                   /\ UNCHANGED rfm_data
    /\ UNCHANGED <<scoringVars, segmentVars>>
    /\ UNCHANGED <<variables, runs, pipe_pc>>
    /\ UNCHANGED <<config, excel, data, data_processed, csv>>

\* lines 51-53: df_resultado = rfm_processor.process_rfm_data(rfm_data)
MainScore ==
    /\ main_pc = "score"
    /\ stages' = Append(stages, Called("score", "ok"))
    /\ \E r \in process_rfm_data(rfm_data, variables, global_config) :
          /\ rfm_data' = r.rfm_data
          /\ runs' = Append(runs, [rfm_data |-> rfm_data, variables |-> variables,
                                   global_config |-> global_config,
                                   df_resultado |-> r.df_resultado,
                                   printed |-> r.printed, inverse |-> r.inverse])
          /\ df' = r.df_resultado
          /\ df_in' = r.df_resultado
          /\ stdout' = stdout \o r.printed
                          \o <<"\nResultados del Puntaje RFM:", "df_resultado.head()">>
    /\ pipe_pc' = "ran"
    /\ main_pc' = "assign"
    /\ UNCHANGED <<scoringVars, variables>>
    /\ UNCHANGED <<score_method, business_categories, end_date, seg_pc, seg_error,
                   returned, seg_call>>
    /\ UNCHANGED <<config, excel, data, data_processed, csv>>

\* lines 56-58: rfm_result = rfm_assigner.process_rfm(df_resultado)
MainAssign ==
    /\ main_pc = "assign"
    /\ LET r == process_rfm(df, score_method, business_categories, end_date)
       IN  /\ stages' = Append(stages, Called("assign", r.status))
           /\ df' = r.df
           /\ seg_call' = "process_rfm"
           /\ IF r.status = "ok"
              THEN /\ seg_pc' = "processed"
                   /\ seg_error' = "none"
                   /\ stdout' = stdout \o r.printed
                        \o <<"\nResultados del Puntaje RFM Total:", "rfm_result.head()">>
                   /\ main_pc' = "export"
              ELSE /\ seg_pc' = "raised"
                   /\ seg_error' = r.status
                   /\ stdout' = Append(stdout \o r.printed, ErrorLine(r.status))
                   /\ main_pc' = "caught"
    /\ UNCHANGED <<score_method, business_categories, end_date, returned, df_in>>
    /\ UNCHANGED <<scoringVars, pipelineVars>>
    /\ UNCHANGED <<config, excel, data, data_processed, csv>>

\* line 61: exporter.export_to_csv(rfm_result, "results_csv")
MainExport ==
    /\ main_pc = "export"
    /\ stages' = Append(stages, Called("export", "ok"))
    /\ LET r == export_to_csv(config, df)
       IN  /\ csv' = r.csv
           /\ stdout' = stdout \o r.printed
    /\ main_pc' = "done"
    /\ UNCHANGED <<scoringVars, segmentVars, pipelineVars>>
    /\ UNCHANGED <<config, excel, data, data_processed>>

NextMain ==
    \/ MainConstruct
    \/ MainLoad
    \/ MainPreprocess
    \/ MainAggregate
    \/ MainScore
    \/ MainAssign
    \/ MainExport

SpecMain == InitMain /\ [][NextMain]_vars

\* ============================================================== properties
BreaksReturned == pc \in {"breaks", "scored"}

ColumnMin == SeqMin(NonNull(column))
ColumnMax == SeqMax(NonNull(column))
Limits    == calculate_outliers_limits(column, variables_config)
N         == global_config.num_categories

\* C1: in every (cutpoints, ranges) pair returned by calculate_breaks,
\* consecutive ranges do not overlap (ranges[i].upper <= ranges[i+1].lower),
\* the first range starts strictly below the column minimum and the last
\* range ends strictly above the column maximum.
C1_RangesOrderedAndSpanColumn ==
    BreaksReturned =>
        /\ \A i \in 1..(Len(break_ranges) - 1) :
              break_ranges[i][2] <= break_ranges[i + 1][1]
        /\ break_ranges[1][1] < ColumnMin * N
        /\ break_ranges[Len(break_ranges)][2] > ColumnMax * N

C1_Witness ==
    /\ pc = "breaks"
    /\ Len(break_ranges) >= 3
    /\ variables_config.breaks_method = "jenks"
    /\ ColumnMin < ColumnMax

\* The ranges [lower, upper) that hold the value v
RangesHolding(v) ==
    {i \in DOMAIN break_ranges :
        break_ranges[i][1] <= v * N /\ v * N < break_ranges[i][2]}

\* C2: every non-null value of the scored column that lies within the outlier
\* bounds [LI, LS] is reported a non-null range by calculate_score, and lies
\* in exactly one half-open range [lower_i, upper_i).
C2_InBoundsValueHasOneRange ==
    pc = "scored" =>
        \A i \in DOMAIN column :
            WithinLimits(Limits, column[i]) =>
                /\ value_ranges[i] # None
                /\ Cardinality(RangesHolding(column[i])) = 1

\* C3: every score is an integer in [score_min, score_max] of the form
\* score_min + k * score_step with k >= 0, in standard and in inverse order.
C3_ScoreWithinConfiguredRange ==
    pc = "scored" =>
        \A i \in DOMAIN scores :
            /\ scores[i] >= global_config.score_range.min
            /\ scores[i] <= global_config.score_range.max
            /\ (scores[i] - global_config.score_range.min)
                    % global_config.score_range.step = 0

\* C4: for two values v1 < v2 of the column, score(v1) <= score(v2) in
\* standard order and score(v1) >= score(v2) in inverse order; with inverse
\* order the smallest value has the highest score and the largest the lowest.
C4_ScoreMonotonic ==
    pc = "scored" =>
        /\ \A i, j \in DOMAIN column :
              (~IsNull(column[i]) /\ ~IsNull(column[j]) /\ column[i] < column[j]) =>
                  IF inverse THEN scores[i] >= scores[j] ELSE scores[i] <= scores[j]
        /\ inverse =>
              \A i, j \in DOMAIN column :
                  (~IsNull(column[i]) /\ ~IsNull(column[j])) =>
                      /\ column[i] = ColumnMin => scores[i] >= scores[j]
                      /\ column[i] = ColumnMax => scores[i] <= scores[j]

C4_Witness ==
    /\ pc = "scored"
    /\ inverse
    /\ \E i, j \in DOMAIN column :
          /\ ~IsNull(column[i]) /\ ~IsNull(column[j])
          /\ column[i] < column[j]
          /\ scores[i] > scores[j]

\* C5: the cut-point sequence returned by calculate_breaks (column_min - 0.001
\* first, column_max + 0.001 last) is strictly increasing, so that every
\* pair of consecutive cut-points is a range with lower < upper.
C5_CutpointsStrictlyIncreasing ==
    BreaksReturned =>
        \A i \in 1..(Len(breaks) - 1) : breaks[i] < breaks[i + 1]

\* C6: a successful calculate_breaks with num_categories = n returns n + 1
\* cut-points, the first column_min - 0.001 and the last column_max + 0.001,
\* and n ranges.
C6_CutpointAndRangeCounts ==
    BreaksReturned =>
        /\ Len(breaks) = N + 1
        /\ Len(break_ranges) = N
        /\ Len(break_ranges) = Len(breaks) - 1
        /\ breaks[1] = (ColumnMin - EPS) * N
        /\ breaks[Len(breaks)] = (ColumnMax + EPS) * N

C6_Witness ==
    /\ pc = "breaks"
    /\ N = 3
    /\ variables_config.breaks_method = "percentiles"
    /\ Len(sample) < Len(column)

\* C7: a value outside the outlier bounds is not in the sample the interior
\* cut-points come from, yet it has a score: above the upper bound the score
\* of bucket num_categories, below the lower bound the score of the lowest
\* bucket.
C7_OutlierExcludedButScored ==
    pc = "scored" =>
        /\ Len(scores) = Len(column)
        /\ \A i \in DOMAIN column :
              (~IsNull(column[i]) /\ ~WithinLimits(Limits, column[i])) =>
                  /\ \A k \in DOMAIN sample : sample[k] # column[i]
                  /\ scores[i] \in Int
                  /\ ~BelowLS(Limits, column[i]) =>
                        scores[i] = ScoreOfBucket(N, global_config, inverse)
                  /\ ~AboveLI(Limits, column[i]) =>
                        scores[i] = ScoreOfBucket(
                            Clip(1, global_config.score_range.min, N),
                            global_config, inverse)

C7_Witness ==
    /\ pc = "scored"
    /\ N >= 2
    /\ \E i, j \in DOMAIN column :
          /\ ~IsNull(column[i]) /\ ~BelowLS(Limits, column[i])
          /\ ~IsNull(column[j]) /\ ~AboveLI(Limits, column[j])

Categorized == seg_pc \in {"assigned", "processed"}

\* the row's months-with-purchases count is 1 and its last purchase has the
\* year and the month of the run's end date
NewEligible(i) ==
    /\ df.cols["MonthsWithPurchases"][i] = 1
    /\ df.cols["LastPurchaseDate"][i].year = end_date.year
    /\ df.cols["LastPurchaseDate"][i].month = end_date.month

\* the configured categories, by position, whose values hold the text t
Matching(t) ==
    {k \in DOMAIN business_categories : t \in business_categories[k][2]}

\* C8: assign_business_categories labels a row "Nuevo" if and only if its
\* MonthsWithPurchases is 1 and its LastPurchaseDate is in the year-month of
\* the end date, whatever its final score, also when a configured category
\* holds that score.
C8_NewIffEligible ==
    Categorized =>
        \A i \in 1..df.nrows :
            (df.cols["Business_Category"][i] = "Nuevo") <=> NewEligible(i)

C8_Witness ==
    /\ Categorized
    /\ \E i, j \in 1..df.nrows :
          /\ NewEligible(i)
          /\ Matching(Str(df.cols["Final_Score"][i])) # {}
          /\ df.cols["Business_Category"][i] = "Nuevo"
          /\ ~NewEligible(j)
          /\ df.cols["MonthsWithPurchases"][j] = 1
          /\ df.cols["LastPurchaseDate"][j].month = end_date.month

\* C9: a row that is not New gets the first category, in configuration
\* order, whose values hold the text of its final score, and gets
\* "Sin Categoría" exactly when no configured category holds it; rows with
\* the same score text get the same category.
C9_FirstMatchingCategory ==
    Categorized =>
        /\ \A i \in 1..df.nrows :
              ~NewEligible(i) =>
                  LET m == Matching(Str(df.cols["Final_Score"][i]))
                      c == df.cols["Business_Category"][i]
                  IN  /\ (c = "Sin Categoría") <=> (m = {})
                      /\ m # {} =>
                            c = business_categories[
                                    CHOOSE k \in m : \A j \in m : k <= j][1]
        /\ \A i, j \in 1..df.nrows :
              (/\ ~NewEligible(i) /\ ~NewEligible(j)
               /\ Str(df.cols["Final_Score"][i]) = Str(df.cols["Final_Score"][j]))
                  => df.cols["Business_Category"][i] = df.cols["Business_Category"][j]

C9_Witness ==
    /\ seg_pc = "processed"
    /\ \E i, j \in 1..df.nrows :
          /\ ~NewEligible(i)
          /\ Cardinality(Matching(Str(df.cols["Final_Score"][i]))) = 2
          /\ df.cols["Business_Category"][i] = "Leales"
          /\ ~NewEligible(j)
          /\ Cardinality(Matching(Str(df.cols["Final_Score"][j]))) = 1

\* the Final_Score cells calculate_final_score produced
FinalScores ==
    IF seg_pc = "returned" THEN returned
    ELSE IF seg_pc = "processed" THEN df.cols["Final_Score"]
    ELSE <<>>

\* C10: with score_method 'combinacion', calculate_final_score gives every
\* row the text of Recency_score, then of Frequency_score, then of
\* Monetary_score: scores 5, 2, 4 give "524" and scores 4, 5, 3 give "453".
C10_CombinationConcatenatesRFM ==
    (score_method = "combinacion" /\ seg_pc \in {"returned", "processed"}) =>
        /\ Len(FinalScores) = df.nrows
        /\ \A i \in 1..df.nrows :
              LET r == df.cols["Recency_score"][i]
                  f == df.cols["Frequency_score"][i]
                  m == df.cols["Monetary_score"][i]
              IN  /\ FinalScores[i].kind = "str"
                  /\ FinalScores[i].text = IntToStr(r) \o IntToStr(f) \o IntToStr(m)
                  /\ (r = 5 /\ f = 2 /\ m = 4) => FinalScores[i].text = "524"
                  /\ (r = 4 /\ f = 5 /\ m = 3) => FinalScores[i].text = "453"

C10_Witness ==
    /\ score_method = "combinacion"
    /\ seg_pc = "returned"
    /\ df.nrows = 2
    /\ returned = <<StrCell("524"), StrCell("453")>>

\* the score methods calculate_final_score has a branch for
RecognisedMethods == {"combinacion", "suma", "promedio"}

FinalScoreCalled == seg_call \in {"calculate_final_score", "process_rfm"}

\* C11: calculate_final_score raises, and no final score is produced for any
\* row, whenever the configured method is not one it recognises or one of
\* Recency_score, Frequency_score, Monetary_score is absent from the table;
\* a score is never computed from fewer than the three columns.
C11_FinalScoreFailsOnBadInput ==
    FinalScoreCalled =>
       /\ (score_method \notin RecognisedMethods \/ ~(ScoreColumns \subseteq DOMAIN df_in.cols))
             => /\ seg_pc = "raised"
                /\ seg_error \in {"ValueError", "KeyError"}
                /\ returned = <<>>
                /\ df = df_in
       /\ FinalScores # <<>> => ScoreColumns \subseteq DOMAIN df_in.cols

C11_Witness ==
    /\ seg_call = "calculate_final_score"
    /\ score_method = "suma"
    /\ df_in.nrows = 2
    /\ DOMAIN df_in.cols = {"Recency_score", "Monetary_score", "MonthsWithPurchases",
                            "LastPurchaseDate"}
    /\ seg_pc = "raised"
    /\ seg_error = "KeyError"

\* C14: assign_business_categories raises when the score column it is told
\* to read is absent from the table, and leaves the table as it was: no
\* Business_Category column and no IsNew helper column are added.
C14_MissingScoreColumnLeavesTable ==
    (seg_call = "assign_business_categories" /\ ~HasColumn(df_in, "Final_Score"))
       => /\ seg_pc = "raised"
          /\ seg_error = "KeyError"
          /\ df = df_in
          /\ ~HasColumn(df, "Business_Category")
          /\ ~HasColumn(df, "IsNew")

C14_Witness ==
    /\ seg_call = "assign_business_categories"
    /\ ~HasColumn(df_in, "Final_Score")
    /\ ScoreColumns \subseteq DOMAIN df_in.cols
    /\ df_in.nrows = 2
    /\ end_date = EndDate
    /\ seg_pc = "raised"
    /\ seg_error = "KeyError"

SupportedOutlierMethods == {"IQR", "std_dev", "percentiles"}

LimitsCalled == limits # NoLimits

\* C17: calculate_outliers_limits raises, returning no bounds, whenever the
\* variable has no configuration entry (KeyError) or its outlier_method is
\* not IQR, std_dev or percentiles (ValueError); with each of the three
\* supported methods it raises neither of these and returns a pair of
\* bounds (the one other failure is numpy's on an empty column).
C17_LimitsFailOnlyOnBadConfig ==
    LimitsCalled =>
       /\ ~variables_config.present => (limits.status = "KeyError" /\ pc = "raised")
       /\ (variables_config.present
             /\ variables_config.outlier_method \notin SupportedOutlierMethods)
             => (limits.status = "ValueError" /\ pc = "raised")
       /\ (variables_config.present
             /\ variables_config.outlier_method \in SupportedOutlierMethods)
             => /\ limits.status \notin {"KeyError", "ValueError"}
                /\ column # <<>> => (limits.status = "ok" /\ pc = "limits")

C17_Witness ==
    /\ LimitsCalled
    /\ variables_config.present
    /\ variables_config.outlier_method = "iqr"
    /\ Len(column) = 3
    /\ limits.status = "ValueError"

\* the column holds finite values only, at least two of them distinct
TwoDistinctFinite(col) ==
    /\ NonNull(col) = col
    /\ Cardinality({col[i] : i \in DOMAIN col}) >= 2

\* lower <= upper for the limits a call returned
LowerLeUpper(lim) ==
    CASE lim.kind = "nan" -> FALSE
      [] lim.kind = "lin" -> lim.LI <= lim.LS
      [] lim.kind = "std" -> lim.k >= 0 \/ lim.nvar = 0

\* the configured parameter of the entry's method is in its usual order:
\* a factor that is not negative, a lower percentile not above the upper one
OrderedParameters(vc) ==
    /\ vc.outlier_method = "IQR" => vc.iqr_factor2 >= 0
    /\ vc.outlier_method = "std_dev" => vc.std_dev_factor >= 0
    /\ vc.outlier_method = "percentiles" => vc.percentile_lower <= vc.percentile_upper

SupportedCallOnTwoDistinct ==
    /\ LimitsCalled
    /\ variables_config.present
    /\ variables_config.outlier_method \in SupportedOutlierMethods
    /\ TwoDistinctFinite(column)

BreaksCalled == pc \in {"breaks", "scored", "raised"} /\ limits = NoLimits

\* no value of the column is left once the out-of-bounds values and the
\* nulls are dropped
NothingLeftAfterFilter ==
    /\ Limits.status = "ok"
    /\ \A i \in DOMAIN column : ~WithinLimits(Limits, column[i])

\* C18: calculate_breaks raises, returning no cut-points, when breaks_method
\* is neither 'percentiles' nor 'jenks', and raises instead of returning
\* cut-points whenever no value is left after the out-of-bounds values and
\* the nulls are dropped.
C18_BreaksFailOnBadMethodOrEmptySample ==
    (BreaksCalled /\ variables_config.present) =>
       /\ variables_config.breaks_method \notin {"percentiles", "jenks"}
             => (pc = "raised" /\ error # "none" /\ breaks = <<>> /\ break_ranges = <<>>)
       /\ NothingLeftAfterFilter
             => /\ pc = "raised"
                /\ error \in {"IndexError", "ValueError"}
                /\ breaks = <<>>
                /\ break_ranges = <<>>

C18_Witness ==
    /\ BreaksCalled
    /\ variables_config.present
    /\ variables_config.breaks_method = "percentiles"
    /\ variables_config.outlier_method = "IQR"
    /\ Len(column) = 2
    /\ NothingLeftAfterFilter
    /\ pc = "raised"
    /\ error = "IndexError"

\* C19: for the column 10, 20, ..., 100 with IQR bounds, percentiles breaks,
\* num_categories 5 and score range 1..5 step 1, calculate_breaks returns the
\* four interior cut-points 28, 46, 64, 82 (the 20th, 40th, 60th and 80th
\* percentiles of the filtered values, which are all ten values) and exactly
\* five ranges that do not overlap; the standard-order scores do not
\* decrease as the value grows and take every value from 1 to 5.
C19_TenValuesFiveCategories ==
    /\ pc # "raised"
    /\ BreaksReturned =>
          /\ Len(sample) = 10
          /\ breaks = <<(10 * One - EPS) * 5, 28 * One * 5, 46 * One * 5, 64 * One * 5,
                         82 * One * 5, (100 * One + EPS) * 5>>
          /\ Len(break_ranges) = 5
          /\ \A i \in 1..5 : break_ranges[i][1] < break_ranges[i][2]
          /\ \A i \in 1..4 : break_ranges[i][2] <= break_ranges[i + 1][1]
    /\ (pc = "scored" /\ ~inverse) =>
          /\ \A i, j \in 1..10 : column[i] <= column[j] => scores[i] <= scores[j]
          /\ {scores[i] : i \in 1..10} = 1..5

C19_Witness ==
    /\ pc = "scored"
    /\ ~inverse
    /\ column = TenValues
    /\ scores = <<1, 1, 2, 2, 3, 3, 4, 4, 5, 5>>

\* the try block of a configured variable ends without an exception on the
\* table and configuration the run saw
Succeeds(r, e) ==
    /\ e.var_config.present
    /\ HasColumn(r.rfm_data, e.column)
    /\ \A b \in calculate_breaks(r.rfm_data.cols[e.column], e.var_config, r.global_config) :
          b.status = "ok"

Succeeded(r) == {r.variables[i].column :
                   i \in {j \in DOMAIN r.variables : Succeeds(r, r.variables[j])}}
Failed(r) == {i \in DOMAIN r.variables : ~Succeeds(r, r.variables[i])}

\* C12: in process_rfm_data a failure while scoring one configured variable
\* (no configuration, no column, unsupported method, any other exception)
\* neither aborts the run nor stops the loop: the returned table holds the
\* input columns and the _score and _range columns of exactly the variables
\* that succeeded, each filled for every row, wherever the failed ones stand
\* in the configuration; a failed variable adds no column and one printed line.
C12_FailedVariableIsSkipped ==
    \A k \in DOMAIN runs :
       LET r == runs[k]
       IN  /\ DOMAIN r.df_resultado.cols =
                 (DOMAIN r.rfm_data.cols)
                 \cup {c \o "_score" : c \in Succeeded(r)}
                 \cup {c \o "_range" : c \in Succeeded(r)}
           /\ \A c \in Succeeded(r) :
                 /\ Len(r.df_resultado.cols[c \o "_score"]) = r.rfm_data.nrows
                 /\ Len(r.df_resultado.cols[c \o "_range"]) = r.rfm_data.nrows
           /\ \A c \in DOMAIN r.rfm_data.cols : r.df_resultado.cols[c] = r.rfm_data.cols[c]
           /\ Len(r.printed) = Cardinality(Failed(r))

\* a run whose first variable fails on an unsupported method and whose
\* second variable is scored
C12_Witness ==
    /\ Len(runs) >= 1
    /\ Len(runs[1].variables) = 2
    /\ runs[1].variables[1].column = "Recency"
    /\ runs[1].variables[1].var_config.present
    /\ runs[1].variables[1].var_config.breaks_method = "kmeans"
    /\ HasColumn(runs[1].rfm_data, "Recency")
    /\ runs[1].variables[2].column = "Frequency"
    /\ DOMAIN runs[1].df_resultado.cols =
          {"Recency", "Frequency", "Frequency_score", "Frequency_range"}
    /\ runs[1].printed = <<SkipError("Recency")>>

RecencySpellings == {"Recency", "recency", "RECENCY"}

\* C13: process_rfm_data scores a variable in inverse order if and only if
\* its configured name is "recency" in any letter case; every other variable
\* is scored in standard order, whatever the variable's entry holds.
C13_InverseIffRecency ==
    \A k \in DOMAIN runs :
       LET r == runs[k]
       IN  /\ DOMAIN r.inverse = Succeeded(r)
           /\ \A c \in Succeeded(r) :
                 LET col == r.rfm_data.cols[c]
                     sc  == r.df_resultado.cols[c \o "_score"]
                 IN  /\ r.inverse[c] <=> (c \in RecencySpellings)
                     /\ \A i, j \in DOMAIN col :
                           (~IsNull(col[i]) /\ ~IsNull(col[j]) /\ col[i] <= col[j])
                              => IF c \in RecencySpellings
                                 THEN sc[i] >= sc[j] ELSE sc[i] <= sc[j]

\* RECENCY, whose entry carries inverse: false, is scored high to low, and
\* Frequency, whose entry carries inverse: true, low to high
C13_Witness ==
    /\ Len(runs) >= 1
    /\ Len(runs[1].variables) = 2
    /\ runs[1].variables[1] = [column |-> "RECENCY",
                                var_config |-> PipelineEntry("percentiles", "false")]
    /\ runs[1].variables[2] = [column |-> "Frequency",
                                var_config |-> PipelineEntry("percentiles", "true")]
    /\ runs[1].rfm_data.cols = [c \in {"RECENCY", "Frequency"} |-> <<0, 2, 3>>]
    /\ runs[1].df_resultado.cols["RECENCY_score"] = <<3, 2, 1>>
    /\ runs[1].df_resultado.cols["Frequency_score"] = <<1, 2, 3>>

IsSkipLine(l) == \E c \in VariableNames : l = SkipNotFound(c) \/ l = SkipError(c)

\* C20 as stated: whatever the engine does, every printed line is the skip
\* line of a variable that process_rfm_data could not score, and a run
\* without a skipped variable prints nothing.
C20_OnlySkipLinesPrinted ==
    /\ \A i \in DOMAIN stdout : IsSkipLine(stdout[i])
    /\ \A k \in DOMAIN runs : Failed(runs[k]) = {} => runs[k].printed = <<>>

\* what the constructor of RFMProcessor printed
ConstructorLines ==
    IF seg_pc # "idle" /\ end_date = NoDate
    THEN <<"Error al cargar el archivo de configuración">>
    ELSE <<>>

ProgressLines ==
    <<"Calculando el score final...", "Asignando categorías de negocio...",
      "Procesamiento RFM completado.">>

RECURSIVE PrintedByRuns(_)
PrintedByRuns(k) == IF k = 0 THEN <<>> ELSE PrintedByRuns(k - 1) \o runs[k].printed

\* C20, amended: the engine prints in three places only.  process_rfm_data
\* prints one skip line for each variable it could not score, and nothing
\* when no variable is skipped; process_rfm prints its progress lines (all
\* three when it returns, the first or the first two when it raises); the
\* constructor of RFMProcessor prints one line when the configuration cannot
\* be loaded.  calculate_outliers_limits, calculate_breaks, calculate_score,
\* calculate_final_score and assign_business_categories print nothing.
C20_PrintedLinesAccounted ==
    /\ pc # "idle" => stdout = <<>>
    /\ pipe_pc # "idle" =>
          /\ stdout = PrintedByRuns(Len(runs))
          /\ \A k \in DOMAIN runs :
                /\ \A i \in DOMAIN runs[k].printed : IsSkipLine(runs[k].printed[i])
                /\ Len(runs[k].printed) = Cardinality(Failed(runs[k]))
    /\ (seg_pc # "idle" /\ seg_call # "process_rfm") => stdout = ConstructorLines
    /\ (seg_call = "process_rfm" /\ seg_pc = "processed")
          => stdout = ConstructorLines \o ProgressLines
    /\ (seg_call = "process_rfm" /\ seg_pc = "raised")
          => \E n \in 1..2 : stdout = ConstructorLines \o SubSeq(ProgressLines, 1, n)

\* process_rfm returned on a loaded configuration and printed its three lines
C20_Witness ==
    /\ seg_call = "process_rfm"
    /\ seg_pc = "processed"
    /\ df_in.nrows = 2
    /\ stdout = ProgressLines

\* the labels a row can get: "Nuevo", a configured category, "Sin Categoría"
CategoryLabels ==
    {"Nuevo", "Sin Categoría"} \cup {business_categories[k][1] : k \in DOMAIN business_categories}

\* C21: a successful assign_business_categories call keeps the rows, leaves
\* the final score and every other column the table had as it was, gives
\* every row one Business_Category label, and adds no column other than
\* Business_Category: the IsNew helper column is not in the returned table.
C21_AssignAddsOnlyBusinessCategory ==
    (seg_call = "assign_business_categories" /\ seg_pc = "assigned") =>
       /\ df.nrows = df_in.nrows
       /\ DOMAIN df.cols = (DOMAIN df_in.cols) \cup {"Business_Category"}
       /\ ~HasColumn(df, "IsNew")
       /\ \A c \in DOMAIN df_in.cols : df.cols[c] = df_in.cols[c]
       /\ DOMAIN df.cols["Business_Category"] = 1..df.nrows
       /\ \A i \in 1..df.nrows : df.cols["Business_Category"][i] \in CategoryLabels

\* two rows, one labelled "Nuevo" and one labelled from the configuration
C21_Witness ==
    /\ seg_call = "assign_business_categories"
    /\ seg_pc = "assigned"
    /\ df.nrows = 2
    /\ df.cols["Business_Category"][1] = "Nuevo"
    /\ df.cols["Business_Category"][2] = "Campeones"
    /\ df.cols["Final_Score"] = df_in.cols["Final_Score"]

\* C22: for every value for which calculate_score reports a range, the range
\* is the one at the position of the value's bucket (position bucket - 1
\* counting from 0), the bucket being the index the cut-point search gives
\* the value and the one its score was mapped from: the cut-point search
\* and the scan over the ranges never put a value in two different buckets.
C22_RangeIsTheBucketsRange ==
    pc = "scored" =>
       \A i \in DOMAIN column :
          value_ranges[i] # None =>
             LET b == Digitize(column[i], breaks, N)
             IN  /\ b \in DOMAIN break_ranges
                 /\ value_ranges[i] = break_ranges[b]
                 /\ scores[i] = ScoreOfBucket(b, global_config, inverse)

\* a value that is itself an interior cut-point, with its range reported
C22_Witness ==
    /\ pc = "scored"
    /\ N = 3
    /\ \E i \in DOMAIN column :
          /\ column[i] * N = breaks[2]
          /\ value_ranges[i] = break_ranges[2]
          /\ break_ranges[2][1] < break_ranges[2][2]

\* the scores calculate_score gives the same column and cut-points in the
\* other order
OtherOrderScores ==
    calculate_score(column, breaks, break_ranges, global_config, ~inverse).scores

\* C23: for every value and every set of cut-points, the score of
\* calculate_score with inverse=False plus its score with inverse=True is
\* score_min + score_max.
C23_StandardPlusInverse ==
    pc = "scored" =>
       \A i \in DOMAIN column :
          scores[i] + OtherOrderScores[i]
             = global_config.score_range.min + global_config.score_range.max

\* scores 5, 3, 1 in inverse order where the standard order gives 1, 3, 5
C23_Witness ==
    /\ pc = "scored"
    /\ inverse
    /\ global_config.score_range = [min |-> 1, max |-> 5, step |-> 2]
    /\ scores = <<5, 3, 1>>
    /\ OtherOrderScores = <<1, 3, 5>>

\* the score method the constructor falls back to
DefaultScoreMethod == RFMProcessor_init([loads |-> FALSE]).score_method

\* C24: the score method the constructor installs by default (no
\* score_method entry, or a configuration that failed to load) is one
\* calculate_final_score recognises: process_rfm on a table with the three
\* score columns does not raise the unrecognised-method error, and with a
\* loaded configuration it gives the table a Final_Score for every row.
C24_DefaultMethodRecognised ==
    (seg_call = "process_rfm" /\ score_method = DefaultScoreMethod
        /\ ScoreColumns \subseteq DOMAIN df_in.cols) =>
       /\ ~(seg_pc = "raised" /\ seg_error = "ValueError")
       /\ end_date # NoDate =>
             /\ HasColumn(df, "Final_Score")
             /\ DOMAIN df.cols["Final_Score"] = 1..df.nrows

\* C25: process_rfm is all-or-nothing on the table it is given: when it
\* raises, in the final-score computation or in the category assignment,
\* the table has the columns and the values it had before the call; none of
\* Final_Score, Business_Category, CutoffDate or IsNew has been added.
C25_ProcessRfmAllOrNothing ==
    (seg_call = "process_rfm" /\ seg_pc = "raised") =>
       /\ df = df_in
       /\ \A c \in {"Final_Score", "Business_Category", "CutoffDate", "IsNew"} :
             HasColumn(df, c) => HasColumn(df_in, c)

\* the six stages of main.py, in the order of its statements
StageOrder == <<"load", "preprocess", "aggregate", "score", "assign", "export">>

ExportCalled == \E i \in DOMAIN stages : stages[i].name = "export"

\* process_rfm_data ran and left the variable without a score column
Skipped(v) ==
    /\ \E i \in DOMAIN stages : stages[i].name = "score"
    /\ ~HasColumn(runs[1].df_resultado, v \o "_score")

\* C26: main runs its stages strictly in the order load, preprocess,
\* aggregate, variable scoring, final score with category assignment,
\* export; a stage is called only when every stage before it returned
\* without raising, so export runs only after the five others returned;
\* in particular nothing is exported when the scoring pipeline skipped
\* Recency, Frequency or Monetary.
C26_StagesInOrderExportLast ==
    /\ Len(stages) <= Len(StageOrder)
    /\ \A i \in DOMAIN stages : stages[i].name = StageOrder[i]
    /\ \A i, j \in DOMAIN stages : i < j => ~stages[i].raised
    /\ ExportCalled => Len(stages) = Len(StageOrder)
    /\ ~ExportCalled => csv = NoFile
    /\ (\E v \in {"Recency", "Frequency", "Monetary"} : Skipped(v)) =>
           /\ ~ExportCalled
           /\ main_pc \in {"assign", "caught"}

\* main ran to its end: the six stages were called and the result of the
\* category assignment was written to the CSV file
C26_Witness ==
    /\ main_pc = "done"
    /\ Len(stages) = Len(StageOrder)
    /\ csv.written
    /\ csv.table = df
    /\ df.nrows > 0
    /\ HasColumn(df, "Business_Category")

====
